---- MODULE Spec2Model ----
(***************************************************************************)
(* Incremental ingestion of Git repositories into a chunk store:            *)
(* src/src/ingestion_service.py (the reconciler and its state store),       *)
(* src/src/git_manager.py (working copy, change detection),                 *)
(* src/src/code_parser.py (chunk extraction, chunk identity) and            *)
(* src/src/vector_store.py (the chunk collection).                          *)
(*                                                                         *)
(* Text is a sequence of one-character strings; a line break is the         *)
(* character "\n".  A revision is the position of a commit in the           *)
(* upstream history of its repository, rendered as a hexsha by Hexsha.      *)
(***************************************************************************)
EXTENDS Integers, Sequences, FiniteSets, TLC

(***************************************************************************)
(* Bounds of the model.                                                     *)
(***************************************************************************)
\* upstream commits pushed after the initial one, over all repositories
MaxCommits == 1
\* settings.max_chunk_size and settings.chunk_overlap as configured for the run
CfgMaxChunkSize == 4
CfgChunkOverlap == 2

(***************************************************************************)
(* Strings.                                                                 *)
(***************************************************************************)
NL == "\n"

\* str.lower() on the characters that occur in paths
LowerChar(c) ==
  CASE c = "P" -> "p"
    [] c = "Y" -> "y"
    [] c = "G" -> "g"
    [] c = "O" -> "o"
    [] OTHER -> c

Lower(s) == [i \in 1..Len(s) |-> LowerChar(s[i])]

\* s[from:] with a 1-based first position
Drop(s, k) == SubSeq(s, k + 1, Len(s))

StartsWith(s, pat) == Len(pat) <= Len(s) /\ SubSeq(s, 1, Len(pat)) = pat

\* pat in s
Contains(s, pat) == \E i \in 0..(Len(s) - Len(pat)) : SubSeq(s, i + 1, i + Len(pat)) = pat

\* s.replace(pat, ""): leftmost non-overlapping occurrences removed
RECURSIVE RemoveAll(_, _)
RemoveAll(s, pat) ==
  IF s = << >> THEN << >>
  ELSE IF StartsWith(s, pat) THEN RemoveAll(Drop(s, Len(pat)), pat)
  ELSE <<Head(s)>> \o RemoveAll(Tail(s), pat)

\* positions of character c in s
Positions(s, c) == {i \in 1..Len(s) : s[i] = c}

SetMax(S) == CHOOSE x \in S : \A y \in S : y <= x

\* content.split('\n')
RECURSIVE Split(_)
Split(s) ==
  IF Positions(s, NL) = {} THEN <<s>>
  ELSE LET i == CHOOSE k \in Positions(s, NL) : \A j \in Positions(s, NL) : k <= j
       IN <<SubSeq(s, 1, i - 1)>> \o Split(Drop(s, i))

\* '\n'.join(lines)
RECURSIVE Join(_)
Join(lines) ==
  IF lines = << >> THEN << >>
  ELSE IF Len(lines) = 1 THEN lines[1]
  ELSE lines[1] \o <<NL>> \o Join(Tail(lines))

\* str(n) for the small naturals of the model
Digit(n) == CASE n = 0 -> "0" [] n = 1 -> "1" [] n = 2 -> "2" [] n = 3 -> "3"
              [] n = 4 -> "4" [] n = 5 -> "5" [] n = 6 -> "6" [] n = 7 -> "7"
              [] n = 8 -> "8" [] n = 9 -> "9"

RECURSIVE Str(_)
Str(n) == IF n < 10 THEN <<Digit(n)>> ELSE Str(n \div 10) \o <<Digit(n % 10)>>

\* the hexsha of the n-th commit of a history
Hexsha(n) == <<"c">> \o Str(n)

(***************************************************************************)
(* Paths (pathlib.Path): name and suffix.                                   *)
(***************************************************************************)
PathName(p) ==
  IF Positions(p, "/") = {} THEN p ELSE Drop(p, SetMax(Positions(p, "/")))

PathSuffix(p) ==
  LET name == PathName(p)
      dots == Positions(name, ".")
  IN IF dots = {} THEN << >>
     ELSE LET i == SetMax(dots)
          IN IF 1 < i /\ i < Len(name) THEN Drop(name, i - 1) ELSE << >>

(***************************************************************************)
(* Configuration: config/repos.json (RepositoriesConfig), read by           *)
(* load_repositories_config, and the chunking settings.  Both are fixed     *)
(* during a run.                                                            *)
(***************************************************************************)
R1 == <<"r", "1">>
R2 == <<"r", "2">>
R3 == <<"r", "3">>

\* a RepositoryConfig that tracks Python and excludes "*/gen/*"
RepositoryConfig(name, enabled) ==
  [name |-> name, enabled |-> enabled, languages |-> <<"python">>,
   exclude_patterns |-> << <<"*", "/", "g", "e", "n", "/", "*">> >>]

\* the configuration files of the model
OneEnabledOneDisabled ==
  [repositories |-> <<RepositoryConfig(R1, TRUE), RepositoryConfig(R2, FALSE)>>]

TwoEnabledOneDisabled ==
  [repositories |-> <<RepositoryConfig(R1, TRUE), RepositoryConfig(R2, FALSE),
                      RepositoryConfig(R3, TRUE)>>]

SeqToSet(s) == {s[i] : i \in 1..Len(s)}

(***************************************************************************)
(* Path admission and language detection.                                   *)
(***************************************************************************)
\* GitManager._should_process_file: language_extensions
language_extensions(lang) ==
  CASE lang = "csharp"     -> {<<".", "c", "s">>}
    [] lang = "python"     -> {<<".", "p", "y">>}
    [] lang = "javascript" -> {<<".", "j", "s">>, <<".", "j", "s", "x">>}
    [] lang = "typescript" -> {<<".", "t", "s">>, <<".", "t", "s", "x">>}
    [] lang = "java"       -> {<<".", "j", "a", "v", "a">>}
    [] lang = "go"         -> {<<".", "g", "o">>}
    [] OTHER               -> {}

\* pattern.replace("*/", "").replace("/*", "")
pattern_clean(pattern) == RemoveAll(RemoveAll(pattern, <<"*", "/">>), <<"/", "*">>)

\* GitManager._should_process_file
_should_process_file(repo_config, file_path) ==
  LET suffix == Lower(PathSuffix(file_path))
      valid_extensions == UNION {language_extensions(l) : l \in SeqToSet(repo_config.languages)}
  IN /\ suffix \in valid_extensions
     /\ \A k \in 1..Len(repo_config.exclude_patterns) :
          ~Contains(file_path, pattern_clean(repo_config.exclude_patterns[k]))

NoLanguage == "none"

\* IngestionService._detect_language: language_map.get(suffix)
_detect_language(file_path) ==
  LET suffix == Lower(PathSuffix(file_path))
  IN CASE suffix = <<".", "c", "s">>                -> "csharp"
       [] suffix = <<".", "p", "y">>                -> "python"
       [] suffix = <<".", "j", "s">>                -> "javascript"
       [] suffix = <<".", "j", "s", "x">>           -> "javascript"
       [] suffix = <<".", "t", "s">>                -> "typescript"
       [] suffix = <<".", "t", "s", "x">>           -> "typescript"
       [] suffix = <<".", "j", "a", "v", "a">>      -> "java"
       [] suffix = <<".", "g", "o">>                -> "go"
       [] OTHER                                     -> NoLanguage

(***************************************************************************)
(* Chunk identity.  The digest is taken to be injective, so an identifier   *)
(* is the string that is hashed: f"{repo}:{path}:{start_line}:{commit}".    *)
(***************************************************************************)
\* _generate_chunk_id with the revision left out of the digest
_generate_chunk_id_NoCommit(repo_name, file_path, start_line, commit_hash) ==
  repo_name \o <<":">> \o file_path \o <<":">> \o Str(start_line)

\* _generate_chunk_id with the repository name left out of the digest
_generate_chunk_id_NoRepo(repo_name, file_path, start_line, commit_hash) ==
  file_path \o <<":">> \o Str(start_line) \o <<":">> \o commit_hash

_generate_chunk_id(repo_name, file_path, start_line, commit_hash) ==
  repo_name \o <<":">> \o file_path \o <<":">> \o Str(start_line) \o <<":">> \o commit_hash

(***************************************************************************)
(* State.                                                                   *)
(***************************************************************************)
VARIABLES
  config,        \* the RepositoriesConfig of config/repos.json
  settings,      \* settings.max_chunk_size, settings.chunk_overlap
  remote,        \* remote[name]: the upstream history, a sequence of trees
  working_copy,  \* working_copy[name]: the clone under repos_base_path
  collection,    \* the chunks held by the vector store's collection
  state_file,    \* ingestion_state.json
  states,        \* states[p]: IngestionService.states of process p
  pc,            \* pc[p]: where process p stands
  frame,         \* frame[p]: the locals of process_repository
  stats,         \* stats[p]: the statistics of the pass in progress
  batch,         \* batch[p]: the loop of process_all_repositories
  ret,           \* ret[p]: what the call that just ended gives its caller
  pre,           \* pre[p]: the collection and the state map when the call began
  last_call,     \* last_call[p][name]: "returned" when the last call of p on
                 \* the repository was a pass that returned statistics and no
                 \* commit was pushed to it since; "reset" when it was a reset
  abandoned,     \* the repositories with a pass abandoned after its Advance
                 \* and no pass committed since
  trial          \* the last two calls made on a CodeParser alone, as the tests
                 \* of src/tests/test_code_parser.py make them

vars == <<trial, config, settings, remote, working_copy, collection, state_file, states,
          pc, frame, stats, batch, ret, pre, last_call, abandoned>>

repositories == config.repositories
RepoIdx == 1..Len(repositories)
RepoNames == {repositories[i].name : i \in RepoIdx}
ConfigOf(name) == repositories[CHOOSE i \in RepoIdx : repositories[i].name = name]

(***************************************************************************)
(* Chunk extraction: the windowing strategy (CodeParser._simple_chunking).  *)
(***************************************************************************)
\* a CodeChunk
CodeChunk(id, repo_name, file_path, language, content, start_line, end_line, commit_hash, chunk_type, metadata) ==
  [id |-> id, repo_name |-> repo_name, file_path |-> file_path,
   language |-> language, content |-> content, start_line |-> start_line,
   end_line |-> end_line, commit_hash |-> commit_hash,
   chunk_type |-> chunk_type, metadata |-> metadata]

\* WindowChunk with the 0-based start_line left as it is
WindowChunk_ZeroBased(ctx, current_chunk, start_line, end_line) ==
  LET chunk_content == Join(current_chunk)
  IN CodeChunk(_generate_chunk_id(ctx.repo_name, ctx.file_path, start_line, ctx.commit_hash),
               ctx.repo_name, ctx.file_path, ctx.language, chunk_content,
               start_line, end_line, ctx.commit_hash, "simple_chunk",
               [byte_size |-> Len(chunk_content)])

\* the chunk that closes the window current_chunk, which began at the
\* 0-based line start_line and ends at the 1-based line end_line
WindowChunk(ctx, current_chunk, start_line, end_line) ==
  LET chunk_content == Join(current_chunk)
  IN CodeChunk(_generate_chunk_id(ctx.repo_name, ctx.file_path, start_line, ctx.commit_hash),
               ctx.repo_name, ctx.file_path, ctx.language, chunk_content,
               start_line + 1, end_line, ctx.commit_hash, "simple_chunk",
               [byte_size |-> Len(chunk_content)])

RECURSIVE OverlapLoop(_, _, _, _, _)
\* the overlap loop with lines counted without their newline
OverlapLoop_NoNewline(current_chunk, j, overlap_lines, overlap_size, overlap) ==
  IF j = 0 THEN [lines |-> overlap_lines, size |-> overlap_size]
  ELSE LET line_len == Len(current_chunk[j])
       IN IF overlap_size + line_len <= overlap
          THEN OverlapLoop(current_chunk, j - 1, <<current_chunk[j]>> \o overlap_lines,
                           overlap_size + line_len, overlap)
          ELSE [lines |-> overlap_lines, size |-> overlap_size]

\* the overlap loop: j runs from the last line of current_chunk to the first
OverlapLoop(current_chunk, j, overlap_lines, overlap_size, overlap) ==
  IF j = 0 THEN [lines |-> overlap_lines, size |-> overlap_size]
  ELSE LET line_len == Len(current_chunk[j]) + 1
       IN IF overlap_size + line_len <= overlap
          THEN OverlapLoop(current_chunk, j - 1, <<current_chunk[j]>> \o overlap_lines,
                           overlap_size + line_len, overlap)
          ELSE [lines |-> overlap_lines, size |-> overlap_size]

\* the loop over enumerate(lines), from the 0-based index i on, and the
\* remaining chunk after it
RECURSIVE WindowLoop(_, _, _, _, _, _, _, _, _)
WindowLoop(ctx, lines, i, chunks, current_chunk, current_size, start_line, chunk_size, overlap) ==
  IF i = Len(lines)
  THEN IF current_chunk # << >>
       THEN Append(chunks, WindowChunk(ctx, current_chunk, start_line, Len(lines)))
       ELSE chunks
  ELSE LET line == lines[i + 1]
           line_size == Len(line) + 1
       IN IF current_size + line_size > chunk_size /\ current_chunk # << >>
          THEN LET ov == OverlapLoop(current_chunk, Len(current_chunk), << >>, 0, overlap)
               IN WindowLoop(ctx, lines, i + 1,
                             Append(chunks, WindowChunk(ctx, current_chunk, start_line, i)),
                             Append(ov.lines, line), ov.size + line_size,
                             i - Len(ov.lines), chunk_size, overlap)
          ELSE WindowLoop(ctx, lines, i + 1, chunks, Append(current_chunk, line),
                          current_size + line_size, start_line, chunk_size, overlap)

\* _simple_chunking without the remaining chunk added after the loop
_simple_chunking_NoRemainder(content, file_path, repo_name, commit_hash, language) ==
  LET all == WindowLoop([file_path |-> file_path, repo_name |-> repo_name,
                         commit_hash |-> commit_hash, language |-> language],
                        Split(content), 0, << >>, << >>, 0, 0,
                        settings.max_chunk_size, settings.chunk_overlap)
  IN SubSeq(all, 1, Len(all) - 1)

_simple_chunking(content, file_path, repo_name, commit_hash, language) ==
  WindowLoop([file_path |-> file_path, repo_name |-> repo_name,
              commit_hash |-> commit_hash, language |-> language],
             Split(content), 0, << >>, << >>, 0, 0,
             settings.max_chunk_size, settings.chunk_overlap)

(***************************************************************************)
(* Chunk extraction: the structural strategy (CodeParser._parse_csharp).    *)
(* A syntax node is [type, start_point, end_point, start_byte, end_byte,    *)
(* children]; points are <<row, column>> with 0-based rows.                 *)
(***************************************************************************)
Node(type, start_point, end_point, start_byte, end_byte, children) ==
  [type |-> type, start_point |-> start_point, end_point |-> end_point,
   start_byte |-> start_byte, end_byte |-> end_byte, children |-> children]

\* the languages that have a parser after _initialize_parsers
parsers == {"csharp"}

target_types ==
  {"class_declaration", "interface_declaration", "struct_declaration",
   "enum_declaration", "method_declaration", "constructor_declaration",
   "property_declaration", "namespace_declaration"}

\* code_parser.py:116, the least stripped length of a node that is emitted
MinNodeSize == 10
\* code_parser.py:120, the factor of max_chunk_size beyond which a container is split
OversizeFactor == 2

Whitespace == {" ", NL, "\t", "\r"}

\* str.strip()
RECURSIVE LStrip(_)
LStrip(s) == IF s # << >> /\ Head(s) \in Whitespace THEN LStrip(Tail(s)) ELSE s

RECURSIVE RStrip(_)
RStrip(s) ==
  IF s # << >> /\ s[Len(s)] \in Whitespace THEN RStrip(SubSeq(s, 1, Len(s) - 1)) ELSE s

Strip(s) == RStrip(LStrip(s))

(***************************************************************************)
(* parser.parse(bytes(content, "utf8")).root_node for the C# of this model: *)
(* one declaration or brace per line.  "namespace N" and "class C" open a   *)
(* declaration whose members stand between the "{" of the next line and     *)
(* the line "}" that closes it, or are closed on their own line             *)
(* ("class C { }", "class C { void M() { } }"); "void M() { }" and        *)
(* "void M();" are methods of one                                           *)
(* line, "void M()" a method whose block runs from the "{" of the next line *)
(* to the first line "}"; "using X;" is a directive; any other line gives   *)
(* no declaration.  A declaration has its identifier as a child and, for a  *)
(* namespace or class, a declaration_list that holds the members.  The      *)
(* tokens and the statements of a block, which hold no declaration, are     *)
(* left out of the tree.                                                    *)
(***************************************************************************)
KwNamespace == <<"n", "a", "m", "e", "s", "p", "a", "c", "e", " ">>
KwClass == <<"c", "l", "a", "s", "s", " ">>
KwVoid == <<"v", "o", "i", "d", " ">>
KwUsing == <<"u", "s", "i", "n", "g", " ">>

\* the offset of the 1-based line i in the text
RECURSIVE LineOffset(_, _)
LineOffset(lines, i) ==
  IF i = 1 THEN 0 ELSE LineOffset(lines, i - 1) + Len(lines[i - 1]) + 1

Indent(line) == Len(line) - Len(LStrip(line))

\* the length of the longest prefix of s with no character of stops
RECURSIVE WordLen(_, _)
WordLen(s, stops) ==
  IF s = << >> \/ Head(s) \in stops THEN 0 ELSE 1 + WordLen(Tail(s), stops)

EndsWith(s, pat) == Len(pat) <= Len(s) /\ SubSeq(s, Len(s) - Len(pat) + 1, Len(s)) = pat

\* the identifier that follows the keyword kw on the line i
Identifier(lines, i, kw) ==
  LET col == Indent(lines[i]) + Len(kw)
      len == WordLen(Drop(lines[i], col), {" ", "(", "{", ";"})
  IN Node("identifier", <<i - 1, col>>, <<i - 1, col + len>>,
          LineOffset(lines, i) + col, LineOffset(lines, i) + col + len, << >>)

\* the declaration that spans the lines i..j, with its children
Declaration(type, lines, i, j, children) ==
  Node(type, <<i - 1, Indent(lines[i])>>, <<j - 1, Len(RStrip(lines[j]))>>,
       LineOffset(lines, i) + Indent(lines[i]),
       LineOffset(lines, j) + Len(RStrip(lines[j])), children)

\* the first line from i on that is "}", or the last line
RECURSIVE ClosingLine(_, _)
ClosingLine(lines, i) ==
  IF i >= Len(lines) THEN Len(lines)
  ELSE IF Strip(lines[i]) = <<"}">> THEN i ELSE ClosingLine(lines, i + 1)

\* the column of the leftmost pat in the line that holds it
IndexOf(line, pat) ==
  CHOOSE c \in 0..(Len(line) - Len(pat)) :
    /\ SubSeq(line, c + 1, c + Len(pat)) = pat
    /\ \A b \in 0..(c - 1) : SubSeq(line, b + 1, b + Len(pat)) # pat

\* the members of a namespace or class closed on its own line i: the method
\* "void M() { }" between the braces, if there is one
InlineMembers(lines, i) ==
  IF ~Contains(lines[i], KwVoid) THEN << >>
  ELSE LET col == IndexOf(lines[i], KwVoid)
           end == Len(RStrip(lines[i])) - 2
           name == col + Len(KwVoid)
           len == WordLen(Drop(lines[i], name), {" ", "(", "{", ";"})
           at == LineOffset(lines, i)
       IN <<Node("method_declaration", <<i - 1, col>>, <<i - 1, end>>, at + col, at + end,
                 <<Node("identifier", <<i - 1, name>>, <<i - 1, name + len>>,
                        at + name, at + name + len, << >>)>>)>>

\* ParseMembers: the declarations from line i up to the line "}" that
\* closes the enclosing one (next); ParseDeclaration: the declaration that
\* begins on line i, if any, and the line after it (next). A method with a
\* block on lines of its own has the block as a child, and the block has the
\* declarations found between its braces
RECURSIVE ParseMembers(_, _)
RECURSIVE ParseDeclaration(_, _)
ParseMembers(lines, i) ==
  IF i > Len(lines) THEN [nodes |-> << >>, next |-> i]
  ELSE IF Strip(lines[i]) = <<"}">> THEN [nodes |-> << >>, next |-> i]
  ELSE LET d == ParseDeclaration(lines, i)
           rest == ParseMembers(lines, d.next)
       IN [nodes |-> d.nodes \o rest.nodes, next |-> rest.next]

ParseDeclaration(lines, i) ==
  LET line == Strip(lines[i])
      Container(type, kw) ==
        IF EndsWith(line, <<"}">>)
        THEN [nodes |-> <<Declaration(type, lines, i, i,
                            <<Identifier(lines, i, kw),
                              Declaration("declaration_list", lines, i, i,
                                          InlineMembers(lines, i))>>)>>,
              next |-> i + 1]
        ELSE LET body == ParseMembers(lines, i + 2)
                 close == IF body.next > Len(lines) THEN Len(lines) ELSE body.next
                 open == IF i + 1 > Len(lines) THEN Len(lines) ELSE i + 1
             IN [nodes |-> <<Declaration(type, lines, i, close,
                               <<Identifier(lines, i, kw),
                                 Declaration("declaration_list", lines, open, close,
                                             body.nodes)>>)>>,
                 next |-> close + 1]
  IN IF StartsWith(line, KwNamespace) THEN Container("namespace_declaration", KwNamespace)
     ELSE IF StartsWith(line, KwClass) THEN Container("class_declaration", KwClass)
     ELSE IF StartsWith(line, KwVoid)
     THEN LET inline == EndsWith(line, <<"}">>) \/ EndsWith(line, <<";">>)
              close == IF inline THEN i ELSE ClosingLine(lines, i + 1)
              open == IF i + 1 > Len(lines) THEN Len(lines) ELSE i + 1
              block == IF inline THEN << >>
                       ELSE <<Declaration("block", lines, open, close,
                                          ParseMembers(lines, open + 1).nodes)>>
          IN [nodes |-> <<Declaration("method_declaration", lines, i, close,
                            <<Identifier(lines, i, KwVoid)>> \o block)>>,
              next |-> close + 1]
     ELSE IF StartsWith(line, KwUsing)
     THEN [nodes |-> <<Declaration("using_directive", lines, i, i, << >>)>>, next |-> i + 1]
     ELSE [nodes |-> << >>, next |-> i + 1]

tree_sitter_parse(content) ==
  LET lines == Split(content)
  IN Node("compilation_unit", <<0, 0>>, <<Len(lines) - 1, Len(lines[Len(lines)])>>,
          0, Len(content), ParseMembers(lines, 1).nodes)

\* CodeParser._extract_name: the text of the first identifier child
_extract_name(node, content) ==
  LET ids == {k \in 1..Len(node.children) : node.children[k].type = "identifier"}
  IN IF ids = {} THEN <<"a", "n", "o", "n", "y", "m", "o", "u", "s">>
     ELSE LET child == node.children[CHOOSE k \in ids : \A j \in ids : k <= j]
          IN SubSeq(content, child.start_byte + 1, child.end_byte)

\* traverse(node, parent_context): the chunks it appends, in order
RECURSIVE traverse(_, _, _, _)
RECURSIVE traverse_children(_, _, _, _, _)
traverse_children(ctx, lines, node, k, parent_context) ==
  IF k > Len(node.children) THEN << >>
  ELSE traverse(ctx, lines, node.children[k], parent_context)
       \o traverse_children(ctx, lines, node, k + 1, parent_context)

\* the chunk traverse creates for a node
traverse_chunk(ctx, lines, node, parent_context) ==
  LET start_line == node.start_point[1]
      end_line == node.end_point[1]
      node_content == Join(SubSeq(lines, start_line + 1, end_line + 1))
      name == _extract_name(node, ctx.content)
      context == IF parent_context # << >>
                 THEN parent_context \o <<".">> \o name ELSE name
  IN CodeChunk(_generate_chunk_id(ctx.repo_name, ctx.file_path, start_line, ctx.commit_hash),
               ctx.repo_name, ctx.file_path, "csharp", node_content,
               start_line + 1, end_line + 1, ctx.commit_hash, node.type,
               [name |-> name, context |-> context, byte_size |-> Len(node_content)])

\* traverse that returns at an oversized class or namespace without walking
\* its children
traverse_NoDescent(ctx, lines, node, parent_context) ==
  IF node.type \in target_types
  THEN LET chunk == traverse_chunk(ctx, lines, node, parent_context)
       IN IF Len(Strip(chunk.content)) < MinNodeSize THEN << >>
          ELSE IF /\ Len(chunk.content) > settings.max_chunk_size * OversizeFactor
                  /\ node.type \in {"class_declaration", "namespace_declaration"}
          THEN << >>
          ELSE IF node.type \in {"method_declaration", "property_declaration",
                                 "constructor_declaration"}
          THEN <<chunk>>
          ELSE <<chunk>> \o traverse_children(ctx, lines, node, 1, parent_context)
  ELSE traverse_children(ctx, lines, node, 1, parent_context)

\* traverse without the test of the minimum size
traverse_NoMinimum(ctx, lines, node, parent_context) ==
  IF node.type \in target_types
  THEN LET chunk == traverse_chunk(ctx, lines, node, parent_context)
       IN IF /\ Len(chunk.content) > settings.max_chunk_size * OversizeFactor
             /\ node.type \in {"class_declaration", "namespace_declaration"}
          THEN traverse_children(ctx, lines, node, 1, parent_context)
          ELSE IF node.type \in {"method_declaration", "property_declaration",
                                 "constructor_declaration"}
          THEN <<chunk>>
          ELSE <<chunk>> \o traverse_children(ctx, lines, node, 1, parent_context)
  ELSE traverse_children(ctx, lines, node, 1, parent_context)

\* traverse that walks the children of every node it emits
traverse_IntoUnits(ctx, lines, node, parent_context) ==
  IF node.type \in target_types
  THEN LET chunk == traverse_chunk(ctx, lines, node, parent_context)
       IN IF Len(Strip(chunk.content)) < MinNodeSize THEN << >>
          ELSE IF /\ Len(chunk.content) > settings.max_chunk_size * OversizeFactor
                  /\ node.type \in {"class_declaration", "namespace_declaration"}
          THEN traverse_children(ctx, lines, node, 1, parent_context)
          ELSE <<chunk>> \o traverse_children(ctx, lines, node, 1, parent_context)
  ELSE traverse_children(ctx, lines, node, 1, parent_context)

traverse(ctx, lines, node, parent_context) ==
  IF node.type \in target_types
  THEN LET start_line == node.start_point[1]
           end_line == node.end_point[1]
           node_content == Join(SubSeq(lines, start_line + 1, end_line + 1))
           name == _extract_name(node, ctx.content)
           context == IF parent_context # << >>
                      THEN parent_context \o <<".">> \o name ELSE name
           chunk == CodeChunk(
                      _generate_chunk_id(ctx.repo_name, ctx.file_path, start_line, ctx.commit_hash),
                      ctx.repo_name, ctx.file_path, "csharp", node_content,
                      start_line + 1, end_line + 1, ctx.commit_hash, node.type,
                      [name |-> name, context |-> context, byte_size |-> Len(node_content)])
       IN IF Len(Strip(node_content)) < MinNodeSize THEN << >>
          ELSE IF /\ Len(node_content) > settings.max_chunk_size * OversizeFactor
                  /\ node.type \in {"class_declaration", "namespace_declaration"}
          THEN traverse_children(ctx, lines, node, 1, parent_context)
          ELSE IF node.type \in {"method_declaration", "property_declaration",
                                 "constructor_declaration"}
          THEN <<chunk>>
          ELSE <<chunk>> \o traverse_children(ctx, lines, node, 1, parent_context)
  ELSE traverse_children(ctx, lines, node, 1, parent_context)

_parse_csharp(root_node, content, file_path, repo_name, commit_hash) ==
  traverse([content |-> content, file_path |-> file_path, repo_name |-> repo_name,
            commit_hash |-> commit_hash], Split(content), root_node, << >>)

\* CodeParser.parse_file; raises tells whether the try block raises
\* (parser.parse on the bytes of the content, or the walk); the handler
\* catches every Exception

\* parse_file_try that returns the result of the walk as it is, empty or not
parse_file_try_NoEmptyFallback(content, file_path, repo_name, commit_hash, language, raises) ==
  IF language \notin parsers
  THEN _simple_chunking(content, file_path, repo_name, commit_hash, language)
  ELSE IF raises
  THEN _simple_chunking(content, file_path, repo_name, commit_hash, language)
  ELSE IF language = "csharp"
  THEN _parse_csharp(tree_sitter_parse(content), content, file_path, repo_name, commit_hash)
  ELSE << >>

parse_file_try(content, file_path, repo_name, commit_hash, language, raises) ==
  IF language \notin parsers
  THEN _simple_chunking(content, file_path, repo_name, commit_hash, language)
  ELSE IF raises
  THEN _simple_chunking(content, file_path, repo_name, commit_hash, language)
  ELSE LET chunks == IF language = "csharp"
                     THEN _parse_csharp(tree_sitter_parse(content), content,
                                        file_path, repo_name, commit_hash)
                     ELSE << >>
       IN IF chunks = << >>
          THEN _simple_chunking(content, file_path, repo_name, commit_hash, language)
          ELSE chunks

\* parse_file on a content the parser and the walk accept
parse_file(content, file_path, repo_name, commit_hash, language) ==
  parse_file_try(content, file_path, repo_name, commit_hash, language, FALSE)

(***************************************************************************)
(* The files of the model.  A tree maps the paths of its blobs to their     *)
(* text.                                                                    *)
(***************************************************************************)
PathA == <<"a", ".", "p", "y">>
PathB == <<"b", ".", "p", "y">>
PathG == <<"g", "e", "n", "/", "c", ".", "p", "y">>
PathN == <<"n", ".", "t", "x", "t">>
Paths == {PathA, PathB, PathG, PathN}

EmptyText == << >>
SmallText == <<"x">>
BigText == <<"a", NL, "b", NL, "c", NL, "d", NL, "e">>
Texts == {EmptyText, SmallText, BigText}

InitialTree == (PathA :> BigText) @@ (PathN :> SmallText)

EmptyMap == [x \in {} |-> x]

\* m with key k set to v (dict assignment)
Put(m, k, v) == [x \in (DOMAIN m) \cup {k} |-> IF x = k THEN v ELSE m[x]]

\* m without key k (del m[k])
Remove(m, k) == [x \in (DOMAIN m) \ {k} |-> m[x]]

(***************************************************************************)
(* Change detection (GitManager.get_changed_files).                         *)
(***************************************************************************)
\* old_commit_obj.diff(current_commit_obj): the possible diff indexes.  Git
\* pairs a deleted and an added path of equal, non-empty text as a rename;
\* with several candidates any maximal pairing may come out.
DiffIndexes(old_tree, new_tree) ==
  LET gone == (DOMAIN old_tree) \ (DOMAIN new_tree)
      new == (DOMAIN new_tree) \ (DOMAIN old_tree)
      both == (DOMAIN old_tree) \cap (DOMAIN new_tree)
      cand == {pr \in gone \X new :
                 old_tree[pr[1]] = new_tree[pr[2]] /\ old_tree[pr[1]] # EmptyText}
      OneToOne(m) == \A x \in m, y \in m : (x[1] = y[1] \/ x[2] = y[2]) => x = y
      pairings == {m \in SUBSET cand :
                     /\ OneToOne(m)
                     /\ \A pr \in cand \ m : ~OneToOne(m \cup {pr})}
      Item(t, a, b) == [change_type |-> t, a_path |-> a, b_path |-> b]
  IN { {Item("R", pr[1], pr[2]) : pr \in m}
       \cup {Item("D", a, a) : a \in gone \ {pr[1] : pr \in m}}
       \cup {Item("A", b, b) : b \in new \ {pr[2] : pr \in m}}
       \cup {Item("M", c, c) : c \in {x \in both : old_tree[x] # new_tree[x]}}
       : m \in pairings }

\* the blobs of self.repo.tree() that pass the admission predicate
AllAdmissible(repo_config, tree) == {f \in DOMAIN tree : _should_process_file(repo_config, f)}

ChangedFiles(added, modified, deleted) ==
  [added |-> added, modified |-> modified, deleted |-> deleted]

\* the loop over diff_index with both paths of a rename in both sets
FromDiffIndex_RenameBoth(repo_config, diff_index) ==
  LET seen == {d \in diff_index :
                 _should_process_file(repo_config,
                                      IF d.a_path # << >> THEN d.a_path ELSE d.b_path)}
      renamed == {d.a_path : d \in {x \in seen : x.change_type = "R"}}
                   \cup {d.b_path : d \in {x \in seen : x.change_type = "R"}}
  IN ChangedFiles(
       {d.a_path : d \in {x \in seen : x.change_type = "A"}} \cup renamed,
       {d.a_path : d \in {x \in seen : x.change_type = "M"}},
       {d.a_path : d \in {x \in seen : x.change_type = "D"}} \cup renamed)

\* the loop over diff_index, lines 127-141
FromDiffIndex(repo_config, diff_index) ==
  LET seen == {d \in diff_index :
                 _should_process_file(repo_config,
                                      IF d.a_path # << >> THEN d.a_path ELSE d.b_path)}
  IN ChangedFiles(
       {d.a_path : d \in {x \in seen : x.change_type = "A"}}
         \cup {d.b_path : d \in {x \in seen : x.change_type = "R"}},
       {d.a_path : d \in {x \in seen : x.change_type = "M"}},
       {d.a_path : d \in {x \in seen : x.change_type = "D"}}
         \cup {d.a_path : d \in {x \in seen : x.change_type = "R"}})

NoCommit == << >>

\* the revisions of a working copy that old_commit names
Resolve(wc, old_commit) == {n \in wc.objects : Hexsha(n) = old_commit}

\* get_changed_files with the first-run traversal not filtered by admission
get_changed_files_Unfiltered(repo_config, hist, wc, old_commit) ==
  IF old_commit = NoCommit
  THEN {ChangedFiles(DOMAIN hist[wc.head], {}, {})}
  ELSE IF Resolve(wc, old_commit) = {}
  THEN {ChangedFiles(AllAdmissible(repo_config, hist[wc.head]), {}, {})}
  ELSE LET old == CHOOSE n \in Resolve(wc, old_commit) : TRUE
       IN {FromDiffIndex(repo_config, di) : di \in DiffIndexes(hist[old], hist[wc.head])}

\* get_changed_files with the except branch returning the empty sets
get_changed_files_NoFallback(repo_config, hist, wc, old_commit) ==
  IF old_commit = NoCommit
  THEN {ChangedFiles(AllAdmissible(repo_config, hist[wc.head]), {}, {})}
  ELSE IF Resolve(wc, old_commit) = {}
  THEN {ChangedFiles({}, {}, {})}
  ELSE LET old == CHOOSE n \in Resolve(wc, old_commit) : TRUE
       IN {FromDiffIndex(repo_config, di) : di \in DiffIndexes(hist[old], hist[wc.head])}

\* GitManager.get_changed_files: the results it may return for a working
\* copy wc of the history hist
get_changed_files(repo_config, hist, wc, old_commit) ==
  IF old_commit = NoCommit
  THEN {ChangedFiles(AllAdmissible(repo_config, hist[wc.head]), {}, {})}
  ELSE IF Resolve(wc, old_commit) = {}
  THEN {ChangedFiles(AllAdmissible(repo_config, hist[wc.head]), {}, {})}
  ELSE LET old == CHOOSE n \in Resolve(wc, old_commit) : TRUE
       IN {FromDiffIndex(repo_config, di) : di \in DiffIndexes(hist[old], hist[wc.head])}

(***************************************************************************)
(* The vector store (VectorStore).  The collection holds one chunk per      *)
(* identifier: adding an identifier it already holds changes nothing.       *)
(***************************************************************************)
ChunksOfFile(coll, repo_name, file_path) ==
  {c \in coll : c.repo_name = repo_name /\ c.file_path = file_path}

ChunksOfRepo(coll, repo_name) == {c \in coll : c.repo_name = repo_name}

\* delete_chunks_by_file with a filter on the path alone
delete_chunks_by_file_AnyRepo(coll, repo_name, file_path) ==
  LET ids == {c.id : c \in {d \in coll : d.file_path = file_path}}
  IN [collection |-> {c \in coll : c.id \notin ids}, count |-> Cardinality(ids)]

\* VectorStore.delete_chunks_by_file: the collection after it and its result
delete_chunks_by_file(coll, repo_name, file_path) ==
  LET ids == {c.id : c \in ChunksOfFile(coll, repo_name, file_path)}
  IN [collection |-> {c \in coll : c.id \notin ids}, count |-> Cardinality(ids)]

\* delete_chunks_by_repo with no filter
delete_chunks_by_repo_All(coll, repo_name) ==
  [collection |-> {}, count |-> Cardinality({c.id : c \in coll})]

\* VectorStore.delete_chunks_by_repo
delete_chunks_by_repo(coll, repo_name) ==
  LET ids == {c.id : c \in ChunksOfRepo(coll, repo_name)}
  IN [collection |-> {c \in coll : c.id \notin ids}, count |-> Cardinality(ids)]

\* collection.add of the chunks of a list, in order
RECURSIVE CollectionAdd(_, _)
CollectionAdd(coll, chunks) ==
  IF chunks = << >> THEN coll
  ELSE CollectionAdd(IF \E c \in coll : c.id = Head(chunks).id
                     THEN coll ELSE coll \cup {Head(chunks)},
                     Tail(chunks))

\* the chunks of a list whose position is not in a set, in order
RECURSIVE Prepared(_, _, _)
Prepared(chunks, k, no_embedding) ==
  IF k > Len(chunks) THEN << >>
  ELSE (IF k \in no_embedding THEN << >> ELSE <<chunks[k]>>)
       \o Prepared(chunks, k + 1, no_embedding)

\* VectorStore.add_chunks: the chunks at the positions of no_embedding raise
\* in the loop of lines 98-131 and are passed over; collection.add (lines
\* 138-149) takes the others in one call, which raises when add_raises
add_chunks_try(coll, chunks, no_embedding, add_raises) ==
  LET ids == Prepared(chunks, 1, no_embedding)
  IN IF chunks = << >> \/ ids = << >> THEN [collection |-> coll, count |-> 0]
     ELSE IF add_raises THEN [collection |-> coll, count |-> 0]
     ELSE [collection |-> CollectionAdd(coll, ids), count |-> Len(ids)]

\* VectorStore.add_chunks with every embedding obtained
add_chunks(coll, chunks) == add_chunks_try(coll, chunks, {}, FALSE)

(***************************************************************************)
(* The state store (IngestionService._load_states, _save_states).           *)
(***************************************************************************)
RepositoryState(repo_name, last_commit_hash, total_chunks, total_files) ==
  [repo_name |-> repo_name, last_commit_hash |-> last_commit_hash,
   total_chunks |-> total_chunks, total_files |-> total_files]

FileAbsent == [status |-> "absent", data |-> EmptyMap]
FileTruncated == [status |-> "truncated", data |-> EmptyMap]

\* IngestionService._load_states
_load_states(file) ==
  IF file.status = "absent" THEN EmptyMap
  ELSE IF file.status = "truncated" THEN EmptyMap
  ELSE [name \in DOMAIN file.data |->
          RepositoryState(file.data[name].repo_name, file.data[name].last_commit_hash,
                          file.data[name].total_chunks, file.data[name].total_files)]

\* IngestionService._save_states when the write succeeds: the file after it
_save_states(map) ==
  [status |-> "written",
   data |-> [name \in DOMAIN map |->
               [repo_name |-> map[name].repo_name,
                last_commit_hash |-> map[name].last_commit_hash,
                total_chunks |-> map[name].total_chunks,
                total_files |-> map[name].total_files]]]

(***************************************************************************)
(* Processes.  Each process holds one IngestionService (cli.py:26,          *)
(* api.py:38); the collection, the state file, the working copies and the   *)
(* remotes are shared.                                                      *)
(***************************************************************************)
Procs == {"p1", "p2"}

\* no call made on a CodeParser alone
NoCall ==
  [op |-> "none", content |-> << >>, file_path |-> << >>, repo_name |-> << >>,
   commit_hash |-> << >>, language |-> "none", start_line |-> 0, chunks |-> << >>,
   id |-> << >>, raises |-> FALSE, result |-> FALSE]

NoTrial == [last |-> NoCall, before |-> NoCall]

ZeroStats ==
  [files_processed |-> 0, files_added |-> 0, files_modified |-> 0,
   files_deleted |-> 0, chunks_added |-> 0, chunks_deleted |-> 0]

NoRepo == << >>

\* what is known of the last add_chunks call of a pass in which a chunk failed
NoStoreFailure == [chunks |-> << >>, failed |-> {}, count |-> 0]

NoFrame ==
  [repo |-> NoRepo, force |-> FALSE, has_changes |-> FALSE,
   current_commit |-> NoCommit, old_commit |-> NoCommit, skipped |-> FALSE,
   failed_at |-> "", save_error |-> FALSE, failed_files |-> {},
   store_failure |-> NoStoreFailure,
   added_files |-> {}, modified_files |-> {}, deleted_files |-> {},
   todo_added |-> {}, todo_modified |-> {}, todo_deleted |-> {}]

NoBatch ==
  [active |-> FALSE, force |-> FALSE, idx |-> 0, results |-> EmptyMap, raised |-> {}]

NoReturn == [kind |-> "none", stats |-> ZeroStats, results |-> EmptyMap]

NoPre == [collection |-> {}, states |-> EmptyMap, state_file |-> FileAbsent]

NoWorkingCopy == [exists |-> FALSE, head |-> 0, objects |-> {}]

Head_(name) == Len(remote[name])

RECURSIVE CommitsOf(_)
CommitsOf(names) ==
  IF names = {} THEN 0
  ELSE LET name == CHOOSE n \in names : TRUE
       IN (Head_(name) - 1) + CommitsOf(names \ {name})

\* the commits pushed since the start
TotalCommits == CommitsOf(RepoNames)

\* the state after construction, for a configuration and settings
InitWithSettings(cfg, env) ==
  /\ config = cfg
  /\ settings = env
  /\ remote = [name \in RepoNames |-> <<InitialTree>>]
  /\ working_copy = [name \in RepoNames |-> NoWorkingCopy]
  /\ collection = {}
  /\ state_file = FileAbsent
  /\ states = [p \in Procs |-> _load_states(FileAbsent)]
  /\ pc = [p \in Procs |-> "idle"]
  /\ frame = [p \in Procs |-> NoFrame]
  /\ stats = [p \in Procs |-> ZeroStats]
  /\ batch = [p \in Procs |-> NoBatch]
  /\ ret = [p \in Procs |-> NoReturn]
  /\ pre = [p \in Procs |-> NoPre]
  /\ last_call = [p \in Procs |-> [name \in RepoNames |-> "none"]]
  /\ abandoned = {}
  /\ trial = NoTrial

InitWith(cfg) ==
  InitWithSettings(cfg, [max_chunk_size |-> CfgMaxChunkSize, chunk_overlap |-> CfgChunkOverlap])

Init == InitWith(OneEnabledOneDisabled)

(***************************************************************************)
(* Upstream: commits pushed to the tracked branch of a remote.              *)
(***************************************************************************)
Quiet == \A p \in Procs : pc[p] = "idle"

Push(name, tree) ==
  /\ TotalCommits < MaxCommits
  /\ Quiet
  /\ remote' = [remote EXCEPT ![name] = Append(@, tree)]
  /\ last_call' = [p \in Procs |->
                     [last_call[p] EXCEPT ![name] = IF @ = "returned" THEN "none" ELSE @]]
  /\ UNCHANGED <<trial, config, settings, working_copy, collection, state_file, states,
                 pc, frame, stats, batch, ret, pre, abandoned>>

HeadTree(name) == remote[name][Head_(name)]

UpstreamAdd(name) ==
  \E f \in Paths \ DOMAIN HeadTree(name), t \in Texts :
    Push(name, Put(HeadTree(name), f, t))

UpstreamModify(name) ==
  \E f \in DOMAIN HeadTree(name) :
    \E t \in Texts \ {HeadTree(name)[f]} :
      Push(name, Put(HeadTree(name), f, t))

UpstreamDelete(name) ==
  \E f \in DOMAIN HeadTree(name) :
    Push(name, Remove(HeadTree(name), f))

UpstreamRename(name) ==
  \E f \in DOMAIN HeadTree(name), g \in Paths \ DOMAIN HeadTree(name) :
    Push(name, Put(Remove(HeadTree(name), f), g, HeadTree(name)[f]))

(***************************************************************************)
(* IngestionService.process_repository, step by step.                       *)
(***************************************************************************)
WorkingCopyOf(p) == working_copy[frame[p].repo]

\* the step that follows once the delta is known or a file is done
PhaseOf(f) ==
  IF f.todo_deleted # {} THEN "retire"
  ELSE IF f.todo_added \cup f.todo_modified # {} THEN "build"
  ELSE "commit"

\* lines 88-100: the call is entered
Begin(p, name, force) ==
  /\ frame' = [frame EXCEPT ![p] = [NoFrame EXCEPT !.repo = name, !.force = force]]
  /\ stats' = [stats EXCEPT ![p] = ZeroStats]
  /\ pre' = [pre EXCEPT ![p] = [collection |-> collection, states |-> states[p],
                                state_file |-> state_file]]
  /\ pc' = [pc EXCEPT ![p] = "acquire"]

\* the call ends: it returns st (kind "stats") or raises (kind "error")
EndPass(p, kind, st) ==
  /\ pc' = [pc EXCEPT ![p] = "pass_end"]
  /\ ret' = [ret EXCEPT ![p] = [kind |-> kind, stats |-> st, results |-> EmptyMap]]

\* a caller (cli.py:43, api.py:173, mcp_server.py:288) calls process_repository
StartPass(p, name, force) ==
  /\ pc[p] = "idle"
  /\ Begin(p, name, force)
  /\ UNCHANGED <<trial, config, settings, remote, working_copy, collection, state_file, states,
                 batch, ret, last_call, abandoned>>

\* a clone of depth 1 at the remote head
Cloned(name) == [exists |-> TRUE, head |-> Head_(name), objects |-> {Head_(name)}]

\* clone_or_open: the working copy exists and opens
AcquireOpen(p) ==
  /\ pc[p] = "acquire"
  /\ WorkingCopyOf(p).exists
  /\ pc' = [pc EXCEPT ![p] = "advance"]
  /\ UNCHANGED <<trial, config, settings, remote, working_copy, collection, state_file, states,
                 frame, stats, batch, ret, pre, last_call, abandoned>>

\* clone_or_open: there is no working copy and the clone succeeds
AcquireClone(p) ==
  /\ pc[p] = "acquire"
  /\ ~WorkingCopyOf(p).exists
  /\ working_copy' = [working_copy EXCEPT ![frame[p].repo] = Cloned(frame[p].repo)]
  /\ pc' = [pc EXCEPT ![p] = "advance"]
  /\ UNCHANGED <<trial, config, settings, remote, collection, state_file, states,
                 frame, stats, batch, ret, pre, last_call, abandoned>>

\* clone_or_open: the working copy does not open, is removed and cloned again
AcquireReclone(p) ==
  /\ pc[p] = "acquire"
  /\ WorkingCopyOf(p).exists
  /\ working_copy' = [working_copy EXCEPT ![frame[p].repo] = Cloned(frame[p].repo)]
  /\ pc' = [pc EXCEPT ![p] = "advance"]
  /\ UNCHANGED <<trial, config, settings, remote, collection, state_file, states,
                 frame, stats, batch, ret, pre, last_call, abandoned>>

\* clone_or_open: the clone raises GitCommandError (after the removal of a
\* working copy that did not open, if there was one)
AcquireFail(p) ==
  /\ pc[p] = "acquire"
  /\ working_copy' = [working_copy EXCEPT ![frame[p].repo] = NoWorkingCopy]
  /\ frame' = [frame EXCEPT ![p].failed_at = "acquire"]
  /\ EndPass(p, "error", stats[p])
  /\ UNCHANGED <<trial, config, settings, remote, collection, state_file, states,
                 stats, batch, pre, last_call, abandoned>>

\* pull_latest: fetch and pull succeed
Advance(p) ==
  /\ pc[p] = "advance"
  /\ LET name == frame[p].repo
         old_commit == working_copy[name].head
         new_commit == Head_(name)
     IN /\ working_copy' = [working_copy EXCEPT ![name] =
                              [exists |-> TRUE, head |-> new_commit,
                               objects |-> @.objects \cup ((old_commit + 1)..new_commit)]]
        /\ frame' = [frame EXCEPT ![p].has_changes = (old_commit # new_commit)]
  /\ pc' = [pc EXCEPT ![p] = "check"]
  /\ UNCHANGED <<trial, config, settings, remote, collection, state_file, states,
                 stats, batch, ret, pre, last_call, abandoned>>

\* AdvanceFail with the exception logged and not raised again
AdvanceFail_Swallowed(p) ==
  /\ pc[p] = "advance"
  /\ frame' = [frame EXCEPT ![p].failed_at = "advance"]
  /\ EndPass(p, "stats", stats[p])
  /\ UNCHANGED <<trial, config, settings, remote, working_copy, collection, state_file, states,
                 stats, batch, pre, last_call, abandoned>>

\* pull_latest: fetch or pull raises GitCommandError
AdvanceFail(p) ==
  /\ pc[p] = "advance"
  /\ frame' = [frame EXCEPT ![p].failed_at = "advance"]
  /\ EndPass(p, "error", stats[p])
  /\ UNCHANGED <<trial, config, settings, remote, working_copy, collection, state_file, states,
                 stats, batch, pre, last_call, abandoned>>

\* lines 110-116: the skip path
CheckSkip(p) ==
  /\ pc[p] = "check"
  /\ ~frame[p].force
  /\ frame[p].repo \in DOMAIN states[p]
  /\ ~frame[p].has_changes
  /\ frame' = [frame EXCEPT ![p].current_commit = Hexsha(WorkingCopyOf(p).head),
                            ![p].skipped = TRUE]
  /\ EndPass(p, "stats", stats[p])
  /\ UNCHANGED <<trial, config, settings, remote, working_copy, collection, state_file, states,
                 stats, batch, pre, last_call, abandoned>>

\* CheckProceed with no skip check before it
CheckProceed_Unguarded(p) ==
  /\ pc[p] = "check"
  /\ frame' = [frame EXCEPT
       ![p].current_commit = Hexsha(WorkingCopyOf(p).head),
       ![p].old_commit = IF frame[p].repo \in DOMAIN states[p] /\ ~frame[p].force
                         THEN states[p][frame[p].repo].last_commit_hash
                         ELSE NoCommit]
  /\ pc' = [pc EXCEPT ![p] = "delta"]
  /\ UNCHANGED <<trial, config, settings, remote, working_copy, collection, state_file, states,
                 stats, batch, ret, pre, last_call, abandoned>>

\* lines 110-119: the pass goes on to the delta
CheckProceed(p) ==
  /\ pc[p] = "check"
  /\ ~(~frame[p].force /\ frame[p].repo \in DOMAIN states[p] /\ ~frame[p].has_changes)
  /\ frame' = [frame EXCEPT
       ![p].current_commit = Hexsha(WorkingCopyOf(p).head),
       ![p].old_commit = IF frame[p].repo \in DOMAIN states[p] /\ ~frame[p].force
                         THEN states[p][frame[p].repo].last_commit_hash
                         ELSE NoCommit]
  /\ pc' = [pc EXCEPT ![p] = "delta"]
  /\ UNCHANGED <<trial, config, settings, remote, working_copy, collection, state_file, states,
                 stats, batch, ret, pre, last_call, abandoned>>

\* Delta with the state set and saved at once, before the retires and the
\* inserts of the pass
Delta_SavesState(p) ==
  /\ pc[p] = "delta"
  /\ \E cf \in get_changed_files(ConfigOf(frame[p].repo), remote[frame[p].repo],
                                 WorkingCopyOf(p), frame[p].old_commit) :
       LET f == [frame[p] EXCEPT
                   !.added_files = cf.added, !.modified_files = cf.modified,
                   !.deleted_files = cf.deleted, !.todo_added = cf.added,
                   !.todo_modified = cf.modified, !.todo_deleted = cf.deleted]
       IN /\ frame' = [frame EXCEPT ![p] = f]
          /\ pc' = [pc EXCEPT ![p] = PhaseOf(f)]
  /\ states' = [states EXCEPT ![p] =
                  Put(@, frame[p].repo,
                      [repo_name |-> frame[p].repo, last_commit_hash |-> frame[p].current_commit,
                       total_chunks |-> 0, total_files |-> 0])]
  /\ state_file' = [status |-> "written", data |-> states'[p]]
  /\ UNCHANGED <<trial, config, settings, remote, working_copy, collection,
                 stats, batch, ret, pre, last_call, abandoned>>

\* line 120: get_changed_files
Delta(p) ==
  /\ pc[p] = "delta"
  /\ \E cf \in get_changed_files(ConfigOf(frame[p].repo), remote[frame[p].repo],
                                 WorkingCopyOf(p), frame[p].old_commit) :
       LET f == [frame[p] EXCEPT
                   !.added_files = cf.added, !.modified_files = cf.modified,
                   !.deleted_files = cf.deleted, !.todo_added = cf.added,
                   !.todo_modified = cf.modified, !.todo_deleted = cf.deleted]
       IN /\ frame' = [frame EXCEPT ![p] = f]
          /\ pc' = [pc EXCEPT ![p] = PhaseOf(f)]
  /\ UNCHANGED <<trial, config, settings, remote, working_copy, collection, state_file, states,
                 stats, batch, ret, pre, last_call, abandoned>>

\* lines 123-129: one deleted file
Retire(p) ==
  /\ pc[p] = "retire"
  /\ \E file_path \in frame[p].todo_deleted :
       LET d == delete_chunks_by_file(collection, frame[p].repo, file_path)
           f == [frame[p] EXCEPT !.todo_deleted = @ \ {file_path}]
       IN /\ collection' = d.collection
          /\ stats' = [stats EXCEPT ![p].chunks_deleted = @ + d.count,
                                    ![p].files_deleted = @ + 1]
          /\ frame' = [frame EXCEPT ![p] = f]
          /\ pc' = [pc EXCEPT ![p] = PhaseOf(f)]
  /\ UNCHANGED <<trial, config, settings, remote, working_copy, state_file, states,
                 batch, ret, pre, last_call, abandoned>>

\* get_file_content: the text of the file in the working tree, or none
get_file_content(name, file_path) ==
  LET tree == remote[name][working_copy[name].head]
  IN IF file_path \in DOMAIN tree THEN tree[file_path] ELSE EmptyText

\* lines 134-175: one file of files_to_process, the added ones first
BuildFile(p, file_path) ==
  LET name == frame[p].repo
      language == _detect_language(file_path)
      content == get_file_content(name, file_path)
      modified == file_path \in frame[p].modified_files
      d == IF modified THEN delete_chunks_by_file(collection, name, file_path)
           ELSE [collection |-> collection, count |-> 0]
      chunks == parse_file(content, file_path, name, frame[p].current_commit, language)
      a == add_chunks(d.collection, chunks)
  IN IF language = NoLanguage \/ content = EmptyText
     THEN UNCHANGED <<collection, stats>>
     ELSE /\ collection' = a.collection
          /\ stats' = [stats EXCEPT
               ![p].chunks_deleted = @ + d.count,
               ![p].files_modified = IF modified THEN @ + 1 ELSE @,
               ![p].files_added = IF modified THEN @ ELSE @ + 1,
               ![p].chunks_added = @ + a.count,
               ![p].files_processed = IF chunks # << >> THEN @ + 1 ELSE @]

Build(p) ==
  /\ pc[p] = "build"
  /\ \/ \E file_path \in frame[p].todo_added :
          LET f == [frame[p] EXCEPT !.todo_added = @ \ {file_path}]
          IN /\ BuildFile(p, file_path)
             /\ frame' = [frame EXCEPT ![p] = f]
             /\ pc' = [pc EXCEPT ![p] = PhaseOf(f)]
     \/ /\ frame[p].todo_added = {}
        /\ \E file_path \in frame[p].todo_modified :
             LET f == [frame[p] EXCEPT !.todo_modified = @ \ {file_path}]
             IN /\ BuildFile(p, file_path)
                /\ frame' = [frame EXCEPT ![p] = f]
                /\ pc' = [pc EXCEPT ![p] = PhaseOf(f)]
  /\ UNCHANGED <<trial, config, settings, remote, working_copy, state_file, states,
                 batch, ret, pre, last_call, abandoned>>

\* the next file of files_to_process: the added ones, then the modified ones
files_to_process(p) ==
  IF frame[p].todo_added # {} THEN frame[p].todo_added ELSE frame[p].todo_modified

\* what a file that fails leaves behind: nothing when it cannot be read
\* (lines 142-145) or when the exception is raised before line 148; the
\* deletion of the old chunks of a modified file and the counters of lines
\* 148-156 when it is raised after them
FailedFile(p, file_path, point) ==
  LET modified == file_path \in frame[p].modified_files
      d == IF modified THEN delete_chunks_by_file(collection, frame[p].repo, file_path)
           ELSE [collection |-> collection, count |-> 0]
  IN IF point = "late"
     THEN /\ collection' = d.collection
          /\ stats' = [stats EXCEPT
               ![p].chunks_deleted = @ + d.count,
               ![p].files_modified = IF modified THEN @ + 1 ELSE @,
               ![p].files_added = IF modified THEN @ ELSE @ + 1]
     ELSE UNCHANGED <<collection, stats>>

FailurePoints == {"unreadable", "early", "late"}

\* lines 134-175 with no except clause: the exception of a file leaves
\* process_repository through line 194
BuildFail_Uncaught(p) ==
  /\ pc[p] = "build"
  /\ \E file_path \in files_to_process(p), point \in FailurePoints :
       /\ FailedFile(p, file_path, point)
       /\ IF point = "unreadable"
          THEN /\ frame' = [frame EXCEPT ![p].todo_added = @ \ {file_path},
                                         ![p].todo_modified = @ \ {file_path},
                                         ![p].failed_files = @ \cup {file_path}]
               /\ pc' = [pc EXCEPT ![p] = PhaseOf(frame'[p])]
               /\ UNCHANGED ret
          ELSE /\ frame' = [frame EXCEPT ![p].failed_files = @ \cup {file_path},
                                         ![p].failed_at = "build"]
               /\ EndPass(p, "error", stats'[p])
  /\ UNCHANGED <<trial, config, settings, remote, working_copy, state_file, states,
                 batch, pre, last_call, abandoned>>

\* lines 134-175 for a file that cannot be read (get_file_content gives None,
\* git_manager.py:190-202) or whose processing raises: lines 173-175 log the
\* exception and go on with the next file
BuildFail(p) ==
  /\ pc[p] = "build"
  /\ \E file_path \in files_to_process(p), point \in FailurePoints :
       /\ FailedFile(p, file_path, point)
       /\ frame' = [frame EXCEPT ![p].todo_added = @ \ {file_path},
                                 ![p].todo_modified = @ \ {file_path},
                                 ![p].failed_files = @ \cup {file_path}]
       /\ pc' = [pc EXCEPT ![p] = PhaseOf(frame'[p])]
  /\ UNCHANGED <<trial, config, settings, remote, working_copy, state_file, states,
                 batch, ret, pre, last_call, abandoned>>

\* lines 134-175 for a file with a chunk that is not stored: its embedding
\* raises (vector_store.py:98-131), or collection.add raises because of it
\* (vector_store.py:138-149)
BuildStoreFail(p) ==
  /\ pc[p] = "build"
  /\ \E file_path \in files_to_process(p), add_raises \in BOOLEAN :
       LET name == frame[p].repo
           language == _detect_language(file_path)
           content == get_file_content(name, file_path)
           modified == file_path \in frame[p].modified_files
           d == IF modified THEN delete_chunks_by_file(collection, name, file_path)
                ELSE [collection |-> collection, count |-> 0]
           chunks == parse_file(content, file_path, name, frame[p].current_commit, language)
       IN /\ language # NoLanguage /\ content # EmptyText
          /\ \E k \in 1..Len(chunks) :
               LET a == add_chunks_try(d.collection, chunks,
                                       IF add_raises THEN {} ELSE {k}, add_raises)
               IN /\ collection' = a.collection
                  /\ stats' = [stats EXCEPT
                       ![p].chunks_deleted = @ + d.count,
                       ![p].files_modified = IF modified THEN @ + 1 ELSE @,
                       ![p].files_added = IF modified THEN @ ELSE @ + 1,
                       ![p].chunks_added = @ + a.count,
                       ![p].files_processed = @ + 1]
                  /\ frame' = [frame EXCEPT
                       ![p].todo_added = @ \ {file_path},
                       ![p].todo_modified = @ \ {file_path},
                       ![p].store_failure = [chunks |-> chunks, failed |-> {k},
                                             count |-> a.count]]
                  /\ pc' = [pc EXCEPT ![p] = PhaseOf(frame'[p])]
  /\ UNCHANGED <<trial, config, settings, remote, working_copy, state_file, states,
                 batch, ret, pre, last_call, abandoned>>

\* lines 178-184: the new RepositoryState of the pass
NewState(p) ==
  RepositoryState(frame[p].repo, frame[p].current_commit,
                  stats[p].chunks_added - stats[p].chunks_deleted,
                  stats[p].files_processed)

\* lines 178-198: the state is set and saved
Commit(p) ==
  /\ pc[p] = "commit"
  /\ states' = [states EXCEPT ![p] = Put(@, frame[p].repo, NewState(p))]
  /\ state_file' = _save_states(states'[p])
  /\ EndPass(p, "stats", stats[p])
  /\ UNCHANGED <<trial, config, settings, remote, working_copy, collection,
                 frame, stats, batch, pre, last_call, abandoned>>

\* lines 178-198 when the write of _save_states raises: the exception is
\* logged there (lines 56-57); the file was not opened, or was opened (and so
\* emptied) and not written
CommitSaveFail(p) ==
  /\ pc[p] = "commit"
  /\ states' = [states EXCEPT ![p] = Put(@, frame[p].repo, NewState(p))]
  /\ state_file' \in {state_file, FileTruncated}
  /\ frame' = [frame EXCEPT ![p].save_error = TRUE]
  /\ EndPass(p, "stats", stats[p])
  /\ UNCHANGED <<trial, config, settings, remote, working_copy, collection,
                 stats, batch, pre, last_call, abandoned>>

\* Deliver with no try around the call in the loop of the batch: an error of
\* a pass ends the batch
Deliver_NoCatch(p) ==
  /\ pc[p] = "pass_end"
  /\ last_call' = [last_call EXCEPT ![p][frame[p].repo] =
                                     IF ret[p].kind = "stats" THEN "returned" ELSE "none"]
  /\ IF batch[p].active
     THEN IF ret[p].kind = "error"
          THEN /\ batch' = [batch EXCEPT ![p].raised = @ \cup {frame[p].repo}]
               /\ pc' = [pc EXCEPT ![p] = "batch_end"]
               /\ ret' = [ret EXCEPT ![p] = [kind |-> "error", stats |-> ZeroStats,
                                             results |-> EmptyMap]]
          ELSE /\ batch' = [batch EXCEPT ![p].results = Put(@, frame[p].repo, ret[p]),
                                         ![p].idx = @ + 1]
               /\ pc' = [pc EXCEPT ![p] = "batch"]
               /\ ret' = [ret EXCEPT ![p] = NoReturn]
     ELSE /\ batch' = batch
          /\ pc' = [pc EXCEPT ![p] = "idle"]
          /\ ret' = [ret EXCEPT ![p] = NoReturn]
  /\ frame' = [frame EXCEPT ![p] = NoFrame]
  /\ stats' = [stats EXCEPT ![p] = ZeroStats]
  /\ pre' = [pre EXCEPT ![p] = NoPre]
  /\ abandoned' = IF ret[p].kind = "stats" /\ ~frame[p].skipped
                  THEN abandoned \ {frame[p].repo} ELSE abandoned
  /\ UNCHANGED <<trial, config, settings, remote, working_copy, collection, state_file, states>>

\* the caller of process_repository takes the result: a direct caller, or
\* the loop of process_all_repositories (lines 215-220)
Deliver(p) ==
  /\ pc[p] = "pass_end"
  /\ last_call' = [last_call EXCEPT ![p][frame[p].repo] =
                                     IF ret[p].kind = "stats" THEN "returned" ELSE "none"]
  /\ IF batch[p].active
     THEN /\ batch' = [batch EXCEPT
               ![p].results = Put(@, frame[p].repo, ret[p]),
               ![p].raised = IF frame[p].failed_at # ""
                             THEN @ \cup {frame[p].repo} ELSE @,
               ![p].idx = @ + 1]
          /\ pc' = [pc EXCEPT ![p] = "batch"]
     ELSE /\ batch' = batch
          /\ pc' = [pc EXCEPT ![p] = "idle"]
  /\ frame' = [frame EXCEPT ![p] = NoFrame]
  /\ stats' = [stats EXCEPT ![p] = ZeroStats]
  /\ ret' = [ret EXCEPT ![p] = NoReturn]
  /\ pre' = [pre EXCEPT ![p] = NoPre]
  /\ abandoned' = IF ret[p].kind = "stats" /\ ~frame[p].skipped
                  THEN abandoned \ {frame[p].repo} ELSE abandoned
  /\ UNCHANGED <<trial, config, settings, remote, working_copy, collection, state_file, states>>

(***************************************************************************)
(* IngestionService.process_all_repositories.                               *)
(***************************************************************************)
StartBatch(p, force) ==
  /\ pc[p] = "idle"
  /\ batch' = [batch EXCEPT ![p] = [active |-> TRUE, force |-> force, idx |-> 1,
                                    results |-> EmptyMap, raised |-> {}]]
  /\ pc' = [pc EXCEPT ![p] = "batch"]
  /\ UNCHANGED <<trial, config, settings, remote, working_copy, collection, state_file, states,
                 frame, stats, ret, pre, last_call, abandoned>>

\* lines 211-213: a disabled repository is passed over
BatchSkip(p) ==
  /\ pc[p] = "batch"
  /\ batch[p].idx <= Len(repositories)
  /\ ~repositories[batch[p].idx].enabled
  /\ batch' = [batch EXCEPT ![p].idx = @ + 1]
  /\ UNCHANGED <<trial, config, settings, remote, working_copy, collection, state_file, states,
                 pc, frame, stats, ret, pre, last_call, abandoned>>

\* line 216: process_repository is called for an enabled repository
BatchProcess(p) ==
  /\ pc[p] = "batch"
  /\ batch[p].idx <= Len(repositories)
  /\ repositories[batch[p].idx].enabled
  /\ Begin(p, repositories[batch[p].idx].name, batch[p].force)
  /\ UNCHANGED <<trial, config, settings, remote, working_copy, collection, state_file, states,
                 batch, ret, last_call, abandoned>>

\* line 222: the loop is over and the results are returned
BatchEnd(p) ==
  /\ pc[p] = "batch"
  /\ batch[p].idx > Len(repositories)
  /\ ret' = [ret EXCEPT ![p] = [kind |-> "results", stats |-> ZeroStats,
                                results |-> batch[p].results]]
  /\ pc' = [pc EXCEPT ![p] = "batch_end"]
  /\ UNCHANGED <<trial, config, settings, remote, working_copy, collection, state_file, states,
                 frame, stats, batch, pre, last_call, abandoned>>

(***************************************************************************)
(* IngestionService.reset_repository.                                       *)
(***************************************************************************)
ResetEnd(p, repo_name) ==
  /\ collection' = delete_chunks_by_repo(collection, repo_name).collection
  /\ frame' = [frame EXCEPT ![p] = [NoFrame EXCEPT !.repo = repo_name]]
  /\ pre' = [pre EXCEPT ![p] = [collection |-> collection, states |-> states[p],
                                state_file |-> state_file]]
  /\ last_call' = [last_call EXCEPT ![p][repo_name] = "reset"]
  /\ pc' = [pc EXCEPT ![p] = "reset_end"]

reset_repository(p, repo_name) ==
  /\ pc[p] = "idle"
  /\ IF repo_name \in DOMAIN states[p]
     THEN /\ states' = [states EXCEPT ![p] = Remove(@, repo_name)]
          /\ state_file' = _save_states(states'[p])
     ELSE UNCHANGED <<states, state_file>>
  /\ ResetEnd(p, repo_name)
  /\ UNCHANGED <<trial, config, settings, remote, working_copy, stats, batch, ret, abandoned>>

\* reset_repository when the write of _save_states raises
ResetSaveFail(p, repo_name) ==
  /\ pc[p] = "idle"
  /\ repo_name \in DOMAIN states[p]
  /\ states' = [states EXCEPT ![p] = Remove(@, repo_name)]
  /\ state_file' \in {state_file, FileTruncated}
  /\ ResetEnd(p, repo_name)
  /\ UNCHANGED <<trial, config, settings, remote, working_copy, stats, batch, ret, abandoned>>

\* process_all_repositories or reset_repository returns to its caller
Return(p) ==
  /\ pc[p] \in {"batch_end", "reset_end"}
  /\ pc' = [pc EXCEPT ![p] = "idle"]
  /\ frame' = [frame EXCEPT ![p] = NoFrame]
  /\ batch' = [batch EXCEPT ![p] = NoBatch]
  /\ ret' = [ret EXCEPT ![p] = NoReturn]
  /\ pre' = [pre EXCEPT ![p] = NoPre]
  /\ UNCHANGED <<trial, config, settings, remote, working_copy, collection, state_file, states,
                 stats, last_call, abandoned>>

(***************************************************************************)
(* The life of a process.                                                   *)
(***************************************************************************)
\* a new process: IngestionService.__init__ loads the state file
Fresh(p) ==
  /\ states' = [states EXCEPT ![p] = _load_states(state_file)]
  /\ pc' = [pc EXCEPT ![p] = "idle"]
  /\ frame' = [frame EXCEPT ![p] = NoFrame]
  /\ stats' = [stats EXCEPT ![p] = ZeroStats]
  /\ batch' = [batch EXCEPT ![p] = NoBatch]
  /\ ret' = [ret EXCEPT ![p] = NoReturn]
  /\ pre' = [pre EXCEPT ![p] = NoPre]
  /\ last_call' = [last_call EXCEPT ![p] = [name \in RepoNames |-> "none"]]
  /\ UNCHANGED <<trial, config, settings, remote, working_copy, collection, state_file>>

\* the process dies in the middle of a call and is started again
Crash(p) ==
  /\ pc[p] \in {"acquire", "advance", "check", "delta", "retire", "build", "commit", "batch"}
  /\ abandoned' = IF pc[p] \in {"check", "delta", "retire", "build", "commit"}
                  THEN abandoned \cup {frame[p].repo} ELSE abandoned
  /\ Fresh(p)

\* the process dies inside _save_states (lines 47-57) and is started again:
\* before open(state_file, 'w'), after it (the file is emptied, and holds at
\* most a part of the JSON text), or after the whole text is written
CrashInSave(p) ==
  /\ pc[p] = "commit"
  /\ state_file' \in {state_file, FileTruncated,
                      _save_states(Put(states[p], frame[p].repo, NewState(p)))}
  /\ states' = [states EXCEPT ![p] = _load_states(state_file')]
  /\ pc' = [pc EXCEPT ![p] = "idle"]
  /\ frame' = [frame EXCEPT ![p] = NoFrame]
  /\ stats' = [stats EXCEPT ![p] = ZeroStats]
  /\ batch' = [batch EXCEPT ![p] = NoBatch]
  /\ ret' = [ret EXCEPT ![p] = NoReturn]
  /\ pre' = [pre EXCEPT ![p] = NoPre]
  /\ last_call' = [last_call EXCEPT ![p] = [name \in RepoNames |-> "none"]]
  /\ abandoned' = abandoned \cup {frame[p].repo}
  /\ UNCHANGED <<trial, config, settings, remote, working_copy, collection>>

\* the process ends between two calls and is started again
Restart(p) ==
  /\ pc[p] = "idle"
  /\ abandoned' = abandoned
  /\ Fresh(p)

(***************************************************************************)
(* Specifications.  One process is at work in each of them, and the        *)
(* commits go to the remote of r1.                                          *)
(***************************************************************************)
Worker == "p1"

Upstream ==
  \/ UpstreamAdd(R1)
  \/ UpstreamModify(R1)
  \/ UpstreamDelete(R1)
  \/ UpstreamRename(R1)

\* the steps of a pass that meets no failure
PassSteps(p) ==
  \/ AcquireOpen(p)
  \/ AcquireClone(p)
  \/ Advance(p)
  \/ CheckSkip(p)
  \/ CheckProceed(p)
  \/ Delta(p)
  \/ Retire(p)
  \/ Build(p)
  \/ Commit(p)
  \/ Deliver(p)

\* the failures of the working copy and of the remote
GitFailures(p) ==
  \/ AcquireReclone(p)
  \/ AcquireFail(p)
  \/ AdvanceFail(p)

\* Spec: passes (forced or not) and resets, called one at a time
Next ==
  \/ Upstream
  \/ \E name \in RepoNames, force \in BOOLEAN : StartPass(Worker, name, force)
  \/ \E name \in RepoNames : reset_repository(Worker, name)
  \/ Return(Worker)
  \/ PassSteps(Worker)

Spec == Init /\ [][Next]_vars

\* SpecSteady: non-forced passes that meet no failure
NextSteady ==
  \/ Upstream
  \/ \E name \in RepoNames : StartPass(Worker, name, FALSE)
  \/ PassSteps(Worker)

SpecSteady == Init /\ [][NextSteady]_vars

\* SpecFiles: non-forced passes in which any file may fail
NextFiles ==
  \/ NextSteady
  \/ BuildFail(Worker)

SpecFiles == Init /\ [][NextFiles]_vars

\* SpecStore: non-forced passes in which a chunk of a file may fail to be stored
NextStore ==
  \/ NextSteady
  \/ BuildStoreFail(Worker)

SpecStore == Init /\ [][NextStore]_vars

\* SpecGit: non-forced passes with the failures of clone, open, fetch and pull
NextGit ==
  \/ NextSteady
  \/ GitFailures(Worker)

SpecGit == Init /\ [][NextGit]_vars

\* SpecWrite: non-forced passes on r1, which skip, fail in clone or pull, or
\* run to their end, with commits in between
NextWrite ==
  \/ Upstream
  \/ StartPass(Worker, R1, FALSE)
  \/ PassSteps(Worker)
  \/ AcquireFail(Worker)
  \/ AdvanceFail(Worker)

SpecWrite == Init /\ [][NextWrite]_vars

\* SpecDelta: get_changed_files on the working copy of a history of two
\* revisions with any trees, at head; the previous marker is absent, or
\* names the first revision, which the working copy holds or (a shallow
\* clone made after it) does not hold
DeltaTexts == {SmallText, BigText}

\* the trees: a.py and b.py with either text, gen/c.py and n.txt with the
\* small one
DeltaTrees ==
  {t \in UNION {[S -> DeltaTexts] : S \in SUBSET Paths} :
     \A f \in DOMAIN t \cap {PathG, PathN} : t[f] = SmallText}

\* the chunks of the admissible files of a tree, extracted at a revision
ChunksOfTree(name, tree, n) ==
  UNION {SeqToSet(parse_file(tree[f], f, name, Hexsha(n), _detect_language(f)))
           : f \in AllAdmissible(ConfigOf(name), tree)}

InitDelta ==
  /\ config = OneEnabledOneDisabled
  /\ settings = [max_chunk_size |-> CfgMaxChunkSize, chunk_overlap |-> CfgChunkOverlap]
  /\ \E old_tree \in DeltaTrees, new_tree \in DeltaTrees, marked \in BOOLEAN, shallow \in BOOLEAN :
       LET st == IF marked
                 THEN Put(EmptyMap, R1,
                          RepositoryState(R1, Hexsha(1),
                                          Cardinality(ChunksOfTree(R1, old_tree, 1)),
                                          Cardinality(AllAdmissible(ConfigOf(R1), old_tree))))
                 ELSE EmptyMap
           coll == IF marked THEN ChunksOfTree(R1, old_tree, 1) ELSE {}
           file == IF marked THEN _save_states(st) ELSE FileAbsent
       IN /\ (shallow => marked)
          /\ remote = [name \in RepoNames |->
                         IF name = R1 THEN <<old_tree, new_tree>> ELSE <<InitialTree>>]
          /\ working_copy = [name \in RepoNames |->
                               IF name = R1
                               THEN [exists |-> TRUE, head |-> 2,
                                     objects |-> IF shallow THEN {2} ELSE {1, 2}]
                               ELSE NoWorkingCopy]
          /\ collection = coll
          /\ state_file = file
          /\ states = [p \in Procs |-> st]
          /\ frame = [p \in Procs |->
                        IF p = Worker
                        THEN [NoFrame EXCEPT !.repo = R1, !.has_changes = TRUE,
                                             !.current_commit = Hexsha(2),
                                             !.old_commit = IF marked THEN Hexsha(1) ELSE NoCommit]
                        ELSE NoFrame]
          /\ pre = [p \in Procs |->
                      IF p = Worker
                      THEN [collection |-> coll, states |-> st, state_file |-> file]
                      ELSE NoPre]
  /\ pc = [p \in Procs |-> IF p = Worker THEN "delta" ELSE "idle"]
  /\ stats = [p \in Procs |-> ZeroStats]
  /\ batch = [p \in Procs |-> NoBatch]
  /\ ret = [p \in Procs |-> NoReturn]
  /\ last_call = [p \in Procs |-> [name \in RepoNames |-> "none"]]
  /\ abandoned = {}
  /\ trial = NoTrial

NextDelta == Delta(Worker)

SpecDelta == InitDelta /\ [][NextDelta]_vars

\* SpecCrash: non-forced passes, and the process may die during a pass
NextCrash ==
  \/ NextSteady
  \/ Crash(Worker)

SpecCrash == Init /\ [][NextCrash]_vars

\* SpecSave: non-forced passes and resets; the write of the state file may
\* fail, and the process may be started again between two calls
NextSave ==
  \/ NextSteady
  \/ CommitSaveFail(Worker)
  \/ \E name \in RepoNames : reset_repository(Worker, name)
  \/ \E name \in RepoNames : ResetSaveFail(Worker, name)
  \/ Return(Worker)
  \/ Restart(Worker)

SpecSave == Init /\ [][NextSave]_vars

\* SpecBatch: process_all_repositories over two enabled repositories and a
\* disabled one, with the failures of clone, open, fetch and pull
NextBatch ==
  \/ Upstream
  \/ StartBatch(Worker, FALSE)
  \/ BatchSkip(Worker)
  \/ BatchProcess(Worker)
  \/ BatchEnd(Worker)
  \/ Return(Worker)
  \/ PassSteps(Worker)
  \/ GitFailures(Worker)

SpecBatch == InitWith(TwoEnabledOneDisabled) /\ [][NextBatch]_vars

\* SpecConcurrent: two processes (two workers, or the server and the command
\* line), each with the state map it loaded at its start, call
\* process_repository on the enabled repositories with nothing to keep their
\* calls apart; no commit is pushed meanwhile
ConcurrentSteps(p) ==
  \/ \E name \in {R1, R3} : StartPass(p, name, FALSE)
  \/ AcquireOpen(p)
  \/ AcquireClone(p)
  \/ Advance(p)
  \/ CheckSkip(p)
  \/ CheckProceed(p)
  \/ Delta(p)
  \/ Build(p)
  \/ Commit(p)
  \/ Deliver(p)

NextConcurrent == \E p \in Procs : ConcurrentSteps(p)

SpecConcurrent == InitWith(TwoEnabledOneDisabled) /\ [][NextConcurrent]_vars

\* SpecTornSave: non-forced passes with commits in between; the process may
\* die inside the save of the state file
NextTornSave ==
  \/ NextSteady
  \/ CrashInSave(Worker)

SpecTornSave == Init /\ [][NextTornSave]_vars

(***************************************************************************)
(* Calls made on a CodeParser alone (src/tests/test_code_parser.py).         *)
(***************************************************************************)
\* what a call on the parser leaves alone
Program ==
  <<config, settings, remote, working_copy, collection, state_file, states,
    pc, frame, stats, batch, ret, pre, last_call, abandoned>>

\* the call c is made after the last one
Called(c) ==
  /\ trial' = [last |-> c, before |-> trial.last]
  /\ UNCHANGED Program

\* SpecIdentity: two calls of _generate_chunk_id; names and paths may hold the
\* separator of the digest's input
MaxStartLine == 10

IdRepos == {<<"r">>, <<"r", ":", "a">>}

IdPaths == {<<"a">>, <<"a", ":", "0">>}

IdLines == {0, 1, MaxStartLine}

IdCommits == {Hexsha(1), Hexsha(2)}

CallGenerateChunkId ==
  \E repo_name \in IdRepos, file_path \in IdPaths, start_line \in IdLines,
     commit_hash \in IdCommits :
    trial.before = NoCall /\
    Called([NoCall EXCEPT !.op = "_generate_chunk_id", !.repo_name = repo_name,
                          !.file_path = file_path, !.start_line = start_line,
                          !.commit_hash = commit_hash,
                          !.id = _generate_chunk_id(repo_name, file_path, start_line,
                                                    commit_hash)])

NextIdentity == CallGenerateChunkId

SpecIdentity == Init /\ [][NextIdentity]_vars

\* the call c is the only one of its test
CalledAlone(c) ==
  /\ trial' = [last |-> c, before |-> NoCall]
  /\ UNCHANGED Program

\* SpecWindow: a call of _simple_chunking on any text of "a" and line
\* breaks up to a length, under any max_chunk_size and chunk_overlap up to
\* a size (the overlap may reach or pass the maximum)
MaxTextLen == 7
MaxWindowSize == 4
MaxWindowOverlap == 4

RECURSIVE TextsUpTo(_)
TextsUpTo(n) ==
  IF n = 0 THEN {<< >>}
  ELSE LET shorter == TextsUpTo(n - 1)
       IN shorter \cup {Append(t, c) : t \in {x \in shorter : Len(x) = n - 1}, c \in {"a", NL}}

WindowTexts == TextsUpTo(MaxTextLen)

WindowSettings ==
  [max_chunk_size : 1..MaxWindowSize, chunk_overlap : 0..MaxWindowOverlap]

CallSimpleChunking ==
  \E content \in WindowTexts :
    trial = NoTrial /\
    CalledAlone([NoCall EXCEPT !.op = "_simple_chunking", !.content = content,
                               !.file_path = PathA, !.repo_name = R1,
                               !.commit_hash = Hexsha(1), !.language = "python",
                               !.chunks = _simple_chunking(content, PathA, R1, Hexsha(1),
                                                           "python")])

InitWindow == \E env \in WindowSettings : InitWithSettings(OneEnabledOneDisabled, env)

NextWindow == CallSimpleChunking

SpecWindow == InitWindow /\ [][NextWindow]_vars

(***************************************************************************)
(* SpecStructure: a call of _parse_csharp or of parse_file on a C# text of  *)
(* one namespace or class with methods, under a max_chunk_size that makes   *)
(* every container, some, or none oversized.                                *)
(***************************************************************************)
MaxMembers == 2
MidChunkSize == 20
DefaultMaxChunkSize == 1000

PathCs == <<"a", ".", "c", "s">>

LnUsing == <<"u", "s", "i", "n", "g", " ", "X", ";">>
LnField == <<"i", "n", "t", " ", "x", ";">>
LnNamespace == <<"n", "a", "m", "e", "s", "p", "a", "c", "e", " ", "N">>
LnClass == <<"c", "l", "a", "s", "s", " ", "C">>
LnClassEmpty == <<"c", "l", "a", "s", "s", " ", "C", " ", "{", " ", "}">>
LnClassInline == <<"c", "l", "a", "s", "s", " ", "C", " ", "{", " ", "v", "o", "i", "d", " ", "A", "(", ")", " ", "{", " ", "}", " ", "}">>
LnOpen == <<"{">>
LnClose == <<"}">>
LnMethodA == <<" ", "v", "o", "i", "d", " ", "A", "(", ")", " ", "{", " ", "}">>
LnMethodB == <<" ", "v", "o", "i", "d", " ", "B", "(", ")", ";">>
LnMethodC == <<" ", "v", "o", "i", "d", " ", "C", "(", ")">>
LnOpenIn == <<" ", "{">>
LnCloseIn == <<" ", "}">>
LnClassIn == <<" ", " ", "c", "l", "a", "s", "s", " ", "D", " ", "{", " ", "}">>

\* a method of one line, a method too small for a chunk, a method with a block
MethodForms == {<<LnMethodA>>, <<LnMethodB>>, <<LnMethodC, LnOpenIn, LnCloseIn>>}

\* a method with a class declared in its block: not C#, and kept in the
\* tree under the block of the method
MisplacedForms == {<<LnMethodC, LnOpenIn, LnClassIn, LnCloseIn>>}

\* the lines of up to n members, each of one of the forms
RECURSIVE Bodies(_, _)
Bodies(forms, n) ==
  IF n = 0 THEN {<< >>}
  ELSE LET shorter == Bodies(forms, n - 1)
       IN shorter \cup {b \o f : b \in shorter, f \in forms}

ClassForms ==
  {<<LnClassEmpty>>, <<LnClassInline>>}
    \cup {<<LnClass, LnOpen>> \o b \o <<LnClose>> : b \in Bodies(MethodForms, MaxMembers)}

NamespaceForms ==
  {<<LnNamespace, LnOpen>> \o b \o <<LnClose>> : b \in {<< >>} \cup ClassForms}

StructureTexts ==
  {Join(u \o f) : u \in {<< >>, <<LnUsing>>},
                   f \in NamespaceForms \cup ClassForms \cup {<<LnField>>}}

\* a class, alone or in a namespace, with a misplaced class among its members
MisplacedTexts ==
  LET bodies == {b \in Bodies(MethodForms \cup MisplacedForms, MaxMembers) :
                   \E k \in 1..Len(b) : b[k] = LnClassIn}
      classes == {<<LnClass, LnOpen>> \o b \o <<LnClose>> : b \in bodies}
  IN {Join(f) : f \in classes \cup {<<LnNamespace, LnOpen>> \o c \o <<LnClose>> : c \in classes}}

StructureSettings ==
  [max_chunk_size : {CfgMaxChunkSize, MidChunkSize, DefaultMaxChunkSize},
   chunk_overlap : {CfgChunkOverlap}]

CallParseCsharp ==
  \E content \in StructureTexts :
    trial = NoTrial /\
    CalledAlone([NoCall EXCEPT !.op = "_parse_csharp", !.content = content,
                               !.file_path = PathCs, !.repo_name = R1,
                               !.commit_hash = Hexsha(1), !.language = "csharp",
                               !.chunks = _parse_csharp(tree_sitter_parse(content), content,
                                                        PathCs, R1, Hexsha(1))])

\* _parse_csharp on a text with a misplaced class
CallParseMisplaced ==
  \E content \in MisplacedTexts :
    trial = NoTrial /\
    CalledAlone([NoCall EXCEPT !.op = "_parse_csharp", !.content = content,
                               !.file_path = PathCs, !.repo_name = R1,
                               !.commit_hash = Hexsha(1), !.language = "csharp",
                               !.chunks = _parse_csharp(tree_sitter_parse(content), content,
                                                        PathCs, R1, Hexsha(1))])

CallParseFile ==
  \E content \in StructureTexts, language \in {"csharp", "python"}, raises \in BOOLEAN :
    trial = NoTrial /\
    CalledAlone([NoCall EXCEPT !.op = "parse_file", !.content = content,
                               !.file_path = PathCs, !.repo_name = R1,
                               !.commit_hash = Hexsha(1), !.language = language,
                               !.raises = raises,
                               !.chunks = parse_file_try(content, PathCs, R1, Hexsha(1),
                                                         language, raises)])

\* the same content and path parsed once more, under any repository name
\* (one of them holds the separator of the digest's input) and revision
OtherRepos == {R1, R2, <<"r", "1", ":", "a">>}

CallParseFileAgain ==
  \E repo_name \in OtherRepos, commit_hash \in IdCommits :
    /\ trial.last.op = "parse_file"
    /\ trial.before = NoCall
    /\ Called([trial.last EXCEPT
                 !.repo_name = repo_name, !.commit_hash = commit_hash,
                 !.chunks = parse_file_try(trial.last.content, trial.last.file_path,
                                           repo_name, commit_hash, trial.last.language,
                                           trial.last.raises)])

InitStructure == \E env \in StructureSettings : InitWithSettings(OneEnabledOneDisabled, env)

NextStructure == CallParseCsharp \/ CallParseFile \/ CallParseFileAgain

SpecStructure == InitStructure /\ [][NextStructure]_vars

\* SpecAdmission: a call of _should_process_file of a repository that
\* tracks Python and has one exclusion pattern, any text of "*", "/" and "g"
\* up to a length, on a path
MaxPatternLen == 3

AdmissionPatterns == UNION {[1..n -> {"*", "/", "g"}] : n \in 1..MaxPatternLen}

AdmissionPaths ==
  {PathA, PathG, PathN, <<"g", ".", "p", "y">>, <<"g", "/", "a", ".", "p", "y">>,
   <<"a", "*", "g", ".", "p", "y">>, <<"g", "/", "*", ".", "p", "y">>}

AdmissionConfig(pattern) ==
  [repositories |-> <<[RepositoryConfig(R1, TRUE) EXCEPT !.exclude_patterns = <<pattern>>]>>]

InitAdmission == \E pattern \in AdmissionPatterns : InitWith(AdmissionConfig(pattern))

CallShouldProcessFile ==
  \E file_path \in AdmissionPaths :
    trial = NoTrial /\
    CalledAlone([NoCall EXCEPT !.op = "_should_process_file", !.file_path = file_path,
                               !.repo_name = R1,
                               !.result = _should_process_file(ConfigOf(R1), file_path)])

NextAdmission == CallShouldProcessFile

SpecAdmission == InitAdmission /\ [][NextAdmission]_vars

\* SpecWalk: the structural walk alone, on the texts of SpecStructure and on
\* texts with a misplaced class
NextWalk == CallParseCsharp \/ CallParseMisplaced

SpecWalk == InitStructure /\ [][NextWalk]_vars

(***************************************************************************)
(* What the claims speak of.                                                *)
(***************************************************************************)
\* a chunk without its identifier and its revision
Shape(c) ==
  [file_path |-> c.file_path, content |-> c.content, start_line |-> c.start_line,
   end_line |-> c.end_line, chunk_type |-> c.chunk_type]

\* the chunks a pass at revision commit_hash extracts from a file of the
\* repository: none from an empty file (ingestion_service.py:143)
Extracted(name, file_path, text, commit_hash) ==
  IF text = EmptyText THEN {}
  ELSE SeqToSet(parse_file(text, file_path, name, commit_hash, _detect_language(file_path)))

\* the stored chunks of a file are those of its text, once each
FileAgrees(name, file_path, text) ==
  /\ {Shape(c) : c \in ChunksOfFile(collection, name, file_path)}
       = {Shape(c) : c \in Extracted(name, file_path, text, NoCommit)}
  /\ Cardinality(ChunksOfFile(collection, name, file_path))
       = Cardinality(Extracted(name, file_path, text, NoCommit))

\* the stored chunks of a repository agree with the head of its remote
AgreesWithHead(name) ==
  \A file_path \in Paths :
    IF file_path \in DOMAIN HeadTree(name)
    THEN _should_process_file(ConfigOf(name), file_path)
           => FileAgrees(name, file_path, HeadTree(name)[file_path])
    ELSE ChunksOfFile(collection, name, file_path) = {}

\* a pass has just returned statistics that it did not get on the skip path
Committed(p) == pc[p] = "pass_end" /\ ret[p].kind = "stats" /\ ~frame[p].skipped

(***************************************************************************)
(* C1.  After successful non-forced passes interleaved with upstream        *)
(* commits, the chunks stored for a repository agree with the head          *)
(* revision: every admissible path at head has exactly the chunks of its    *)
(* current content, and no chunk is stored for a path absent at head.       *)
(* Stated under SpecSteady for a repository whose last pass returned with   *)
(* no commit pushed since.  The code breaks it.                             *)
(***************************************************************************)
C1_StoreAgreesWithHead ==
  \A name \in RepoNames :
    (pc[Worker] = "idle" /\ last_call[Worker][name] = "returned") => AgreesWithHead(name)

(***************************************************************************)
(* C2.  Delete-before-rebuild: after a pass, each path reported as          *)
(* modified holds exactly the chunks freshly extracted from its new         *)
(* content, and no chunk stored for it before the pass survives, whatever   *)
(* the new content is.  The code breaks it.                                 *)
(***************************************************************************)
C2_DeleteBeforeRebuild ==
  Committed(Worker) =>
    \A file_path \in frame[Worker].modified_files :
      /\ ChunksOfFile(collection, frame[Worker].repo, file_path)
           = Extracted(frame[Worker].repo, file_path,
                       get_file_content(frame[Worker].repo, file_path),
                       frame[Worker].current_commit)
      /\ ChunksOfFile(collection, frame[Worker].repo, file_path)
           \cap pre[Worker].collection = {}

(***************************************************************************)
(* C3.  Re-processing is idempotent: when a pass was abandoned before its   *)
(* Commit and a later pass on the repository reaches its Commit, every path *)
(* that pass reports as added or as modified holds exactly the chunks       *)
(* extracted at the final head, with no duplicate.  The code breaks it.     *)
(***************************************************************************)
C3_ReprocessingIdempotent ==
  (Committed(Worker) /\ frame[Worker].repo \in abandoned) =>
    \A file_path \in frame[Worker].added_files \cup frame[Worker].modified_files :
      ChunksOfFile(collection, frame[Worker].repo, file_path)
        = Extracted(frame[Worker].repo, file_path,
                    get_file_content(frame[Worker].repo, file_path),
                    frame[Worker].current_commit)

(***************************************************************************)
(* C4.  When a pass crashed after Advance and before Commit, the next       *)
(* non-forced call on the repository, whose revision marker is still the    *)
(* previous one, does not take the skip path: it derives the delta from     *)
(* that marker and redoes the work, even with no further upstream commit.   *)
(* The code breaks it.                                                      *)
(***************************************************************************)
C4_RedoAfterCrash ==
  ( /\ pc[Worker] = "pass_end"
    /\ ret[Worker].kind = "stats"
    /\ ~frame[Worker].force
    /\ frame[Worker].repo \in abandoned
    /\ frame[Worker].repo \in DOMAIN pre[Worker].states
    /\ pre[Worker].states[frame[Worker].repo].last_commit_hash # frame[Worker].current_commit )
  => ( /\ ~frame[Worker].skipped
       /\ frame[Worker].old_commit = pre[Worker].states[frame[Worker].repo].last_commit_hash )

(***************************************************************************)
(* C5.  No-op on an unchanged head: a non-forced call that follows a call   *)
(* that returned, with no upstream commit in between and no failure of      *)
(* git, returns the six statistics at zero and changes neither the stored   *)
(* chunks nor the RepositoryState, in memory or in the file.                *)
(***************************************************************************)
C5_NoOpOnUnchangedHead ==
  ( /\ pc[Worker] = "pass_end"
    /\ ~frame[Worker].force
    /\ frame[Worker].failed_at = ""
    /\ last_call[Worker][frame[Worker].repo] = "returned" )
  => ( /\ ret[Worker].kind = "stats"
       /\ ret[Worker].stats = ZeroStats
       /\ collection = pre[Worker].collection
       /\ states[Worker] = pre[Worker].states
       /\ state_file = pre[Worker].state_file )

\* a second call has returned, with chunks and a state stored by the first
C5_Witness ==
  /\ pc[Worker] = "pass_end"
  /\ ~frame[Worker].force
  /\ frame[Worker].failed_at = ""
  /\ last_call[Worker][frame[Worker].repo] = "returned"
  /\ ChunksOfRepo(collection, frame[Worker].repo) # {}
  /\ frame[Worker].repo \in DOMAIN states[Worker]
  /\ states[Worker][frame[Worker].repo].total_chunks > 0

C7_SaveFailureIsFatal ==
  (pc[Worker] = "pass_end" /\ frame[Worker].save_error) =>
    /\ ret[Worker].kind = "error"
    /\ states[Worker] = pre[Worker].states

(***************************************************************************)
(* C8.  When Acquire (clone or open) or Advance (fetch, pull) fails,        *)
(* process_repository raises, no chunk is deleted or inserted, and the      *)
(* RepositoryState map is as it was before the call, in memory and in the   *)
(* file.                                                                    *)
(***************************************************************************)
C8_GitFailureLeavesAllAsItWas ==
  (pc[Worker] = "pass_end" /\ frame[Worker].failed_at # "") =>
    /\ ret[Worker].kind = "error"
    /\ collection = pre[Worker].collection
    /\ states[Worker] = pre[Worker].states
    /\ state_file = pre[Worker].state_file

\* the pull of a repository with chunks and a state stored has failed
C8_Witness ==
  /\ pc[Worker] = "pass_end"
  /\ frame[Worker].failed_at = "advance"
  /\ ret[Worker].kind = "error"
  /\ ChunksOfRepo(collection, frame[Worker].repo) # {}
  /\ frame[Worker].repo \in DOMAIN states[Worker]

(***************************************************************************)
(* C9.  Batch isolation: process_all_repositories returns a result map      *)
(* (it does not raise) with an entry for each enabled repository and none   *)
(* for a disabled one; the entry of a repository whose pass raised is an    *)
(* error, the others are statistics of a pass that left a state; a          *)
(* disabled repository is not processed.                                    *)
(***************************************************************************)
Enabled == {repositories[i].name : i \in {j \in RepoIdx : repositories[j].enabled}}

C9_BatchIsolation ==
  pc[Worker] = "batch_end" =>
    /\ ret[Worker].kind = "results"
    /\ DOMAIN ret[Worker].results = Enabled
    /\ \A name \in Enabled :
         IF name \in batch[Worker].raised
         THEN ret[Worker].results[name].kind = "error"
         ELSE /\ ret[Worker].results[name].kind = "stats"
              /\ name \in DOMAIN states[Worker]
    /\ \A name \in RepoNames \ Enabled :
         /\ ChunksOfRepo(collection, name) = {}
         /\ name \notin DOMAIN states[Worker]

\* the pass of the first enabled repository raised, the last was processed
C9_Witness ==
  /\ pc[Worker] = "batch_end"
  /\ ret[Worker].kind = "results"
  /\ ret[Worker].results[R1].kind = "error"
  /\ ret[Worker].results[R3].kind = "stats"
  /\ ChunksOfRepo(collection, R3) # {}
  /\ RepoNames \ Enabled # {}

AfterDelta == pc[Worker] \in {"retire", "build", "commit"}

DeltaConfig == ConfigOf(frame[Worker].repo)

DeltaHead == remote[frame[Worker].repo][working_copy[frame[Worker].repo].head]

Admissible(file_path) == _should_process_file(DeltaConfig, file_path)

\* the previous marker is present and names a revision of the working copy
MarkerResolved ==
  /\ frame[Worker].old_commit # NoCommit
  /\ Resolve(working_copy[frame[Worker].repo], frame[Worker].old_commit) # {}

\* the previous marker is present and names no revision of the working copy
MarkerUnresolved ==
  /\ frame[Worker].old_commit # NoCommit
  /\ Resolve(working_copy[frame[Worker].repo], frame[Worker].old_commit) = {}

(***************************************************************************)
(* C11.  First-run completeness: with no previous revision marker,          *)
(* get_changed_files returns as added exactly the admissible paths of the   *)
(* current snapshot, and modified and deleted are empty.                    *)
(***************************************************************************)
C11_FirstRunCompleteness ==
  (AfterDelta /\ frame[Worker].old_commit = NoCommit) =>
    /\ frame[Worker].added_files = {f \in DOMAIN DeltaHead : Admissible(f)}
    /\ frame[Worker].modified_files = {}
    /\ frame[Worker].deleted_files = {}

\* a first run on a snapshot with an admissible and an inadmissible file
C11_Witness ==
  /\ AfterDelta
  /\ frame[Worker].old_commit = NoCommit
  /\ frame[Worker].added_files = {PathA, PathB}
  /\ {PathG, PathN} \subseteq DOMAIN DeltaHead

(***************************************************************************)
(* C12.  Every path in the added, modified and deleted sets returned by     *)
(* get_changed_files passes the admission predicate, whatever the changes   *)
(* between the previous marker and head, renames included.  The code        *)
(* breaks it.                                                               *)
(***************************************************************************)
C12_ReturnedPathsAdmissible ==
  AfterDelta =>
    \A f \in frame[Worker].added_files \cup frame[Worker].modified_files
               \cup frame[Worker].deleted_files : Admissible(f)

(***************************************************************************)
(* C13.  A rename between the previous marker and head is reported as       *)
(* delete of the old path and add of the new path, never as modified: for   *)
(* one of the diffs git may give, every admissible old path of a rename is  *)
(* in deleted and every admissible new path is in added, each side by its   *)
(* own admissibility.  The code breaks it.                                  *)
(***************************************************************************)
C13_RenameIsDeletePlusAdd ==
  (AfterDelta /\ MarkerResolved) =>
    LET wc == working_copy[frame[Worker].repo]
        old == CHOOSE n \in Resolve(wc, frame[Worker].old_commit) : TRUE
    IN \E di \in DiffIndexes(remote[frame[Worker].repo][old], DeltaHead) :
         \A d \in {x \in di : x.change_type = "R"} :
           /\ Admissible(d.a_path) => d.a_path \in frame[Worker].deleted_files
           /\ Admissible(d.b_path) => d.b_path \in frame[Worker].added_files
           /\ d.a_path \notin frame[Worker].modified_files
           /\ d.b_path \notin frame[Worker].modified_files

(***************************************************************************)
(* C14.  When the diff against a present previous marker fails (the marker  *)
(* names no revision of the working copy), get_changed_files does not       *)
(* raise and returns the first-run result: added is every admissible path   *)
(* of the current snapshot, modified and deleted are empty.                 *)
(***************************************************************************)
C14_DiffFailureFallsBack ==
  (pc[Worker] # "delta" /\ frame[Worker].repo # NoRepo /\ MarkerUnresolved) =>
    /\ AfterDelta
    /\ frame[Worker].added_files = {f \in DOMAIN DeltaHead : Admissible(f)}
    /\ frame[Worker].modified_files = {}
    /\ frame[Worker].deleted_files = {}

\* the marker does not resolve, and the head differs from the marked
\* revision by a deleted and an unchanged admissible file
C14_Witness ==
  /\ AfterDelta
  /\ MarkerUnresolved
  /\ frame[Worker].added_files = {PathA}
  /\ remote[frame[Worker].repo][1] = (PathA :> BigText) @@ (PathB :> SmallText)
  /\ DeltaHead = (PathA :> BigText) @@ (PathN :> SmallText)

(***************************************************************************)
(* C15.  Chunk identity is deterministic and input-sensitive: two calls of  *)
(* _generate_chunk_id with the same (repo, path, start_line, revision) give *)
(* the same identifier, and two calls that differ in exactly one of the     *)
(* four inputs give different identifiers (the digest taken as injective).  *)
(***************************************************************************)
IdInputs(c) == <<c.repo_name, c.file_path, c.start_line, c.commit_hash>>

IdInputsChanged(a, b) == Cardinality({k \in 1..4 : IdInputs(a)[k] # IdInputs(b)[k]})

TwoIdCalls == trial.before.op = "_generate_chunk_id" /\ trial.last.op = "_generate_chunk_id"

C15_ChunkIdentity ==
  TwoIdCalls =>
    /\ IdInputsChanged(trial.before, trial.last) = 0 => trial.before.id = trial.last.id
    /\ IdInputsChanged(trial.before, trial.last) = 1 => trial.before.id # trial.last.id

\* two calls that differ in the revision alone, on a name and a path that
\* hold the separator
C15_Witness ==
  /\ TwoIdCalls
  /\ IdInputsChanged(trial.before, trial.last) = 1
  /\ trial.before.commit_hash # trial.last.commit_hash
  /\ trial.last.repo_name = <<"r", ":", "a">>
  /\ trial.last.file_path = <<"a", ":", "0">>
  /\ trial.before.id # trial.last.id

(***************************************************************************)
(* The fallback chunks of the last call of _simple_chunking.                *)
(***************************************************************************)
WindowCall == trial.last.op = "_simple_chunking"

WindowLines == Split(trial.last.content)

\* the lines of the chunks from the k-th on, with the leading lines of each
\* chunk that do not pass prev_end, the end of the chunk before it, removed
RECURSIVE Rebuilt(_, _, _)
Rebuilt(chunks, k, prev_end) ==
  IF k > Len(chunks) THEN << >>
  ELSE LET own == Split(chunks[k].content)
           overlapped == prev_end - chunks[k].start_line + 1
       IN SubSeq(own, (IF overlapped > 0 THEN overlapped ELSE 0) + 1, Len(own))
            \o Rebuilt(chunks, k + 1, chunks[k].end_line)

(***************************************************************************)
(* C16.  Windowing coverage: for any text, max size and overlap, the        *)
(* fallback chunks in order start at line 1 and end at the last line, each  *)
(* later chunk starts no later than the line after the end of the chunk     *)
(* before it and ends strictly after it, and the chunks joined with their   *)
(* overlapped leading lines removed are the lines of the text.              *)
(***************************************************************************)
C16_WindowingCoverage ==
  WindowCall =>
    LET chunks == trial.last.chunks
    IN /\ Len(chunks) >= 1
       /\ chunks[1].start_line = 1
       /\ chunks[Len(chunks)].end_line = Len(WindowLines)
       /\ \A k \in 2..Len(chunks) :
            /\ chunks[k].start_line <= chunks[k - 1].end_line + 1
            /\ chunks[k].end_line > chunks[k - 1].end_line
       /\ Rebuilt(chunks, 1, 0) = WindowLines

\* three chunks, the second and third beginning inside the one before
C16_Witness ==
  /\ WindowCall
  /\ Len(trial.last.chunks) = 3
  /\ trial.last.chunks[2].start_line <= trial.last.chunks[1].end_line
  /\ trial.last.chunks[3].start_line <= trial.last.chunks[2].end_line
  /\ settings.chunk_overlap < settings.max_chunk_size

(***************************************************************************)
(* C17.  Windowing bound: for any text, max size and overlap, every         *)
(* fallback chunk but the last has at most max_chunk_size characters.  The  *)
(* code breaks it.                                                          *)
(***************************************************************************)
C17_WindowingBound ==
  WindowCall =>
    \A k \in 1..(Len(trial.last.chunks) - 1) :
      Len(trial.last.chunks[k].content) <= settings.max_chunk_size

(***************************************************************************)
(* The structural strategy: a call of _parse_csharp on the tree of its      *)
(* content.                                                                *)
(***************************************************************************)
StructureCall == trial.last.op = "_parse_csharp"

StructureTree == tree_sitter_parse(trial.last.content)

\* a node and all its descendants
RECURSIVE NodesOf(_)
NodesOf(node) ==
  {node} \cup UNION {NodesOf(node.children[k]) : k \in 1..Len(node.children)}

DescendantsOf(node) == UNION {NodesOf(node.children[k]) : k \in 1..Len(node.children)}

\* the rendered text of a node: the lines of the file it spans
RenderedText(content, node) ==
  Join(SubSeq(Split(content), node.start_point[1] + 1, node.end_point[1] + 1))

TooSmall(content, node) == Len(Strip(RenderedText(content, node))) < MinNodeSize

OversizedContainer(content, node) ==
  /\ node.type \in {"namespace_declaration", "class_declaration"}
  /\ Len(RenderedText(content, node)) > OversizeFactor * settings.max_chunk_size

Eligible(content, node) ==
  /\ node.type \in target_types
  /\ ~TooSmall(content, node)
  /\ ~OversizedContainer(content, node)

\* the chunk c is the chunk of the node
ChunkOf(c, content, node) ==
  /\ c.chunk_type = node.type
  /\ c.start_line = node.start_point[1] + 1
  /\ c.end_line = node.end_point[1] + 1
  /\ c.content = RenderedText(content, node)

Emitted(chunks, content, node) ==
  \E k \in 1..Len(chunks) : ChunkOf(chunks[k], content, node)

RECURSIVE PreOrder(_, _, _)
RECURSIVE PreOrderChildren(_, _, _, _)
PreOrder(content, node, inside) ==
  LET unit == /\ node.type \in {"method_declaration", "constructor_declaration",
                                "property_declaration"}
              /\ ~TooSmall(content, node)
              /\ ~inside
  IN <<[node |-> node, inside |-> inside]>>
       \o PreOrderChildren(content, node, 1, inside \/ unit)

PreOrderChildren(content, node, k, inside) ==
  IF k > Len(node.children) THEN << >>
  ELSE PreOrder(content, node.children[k], inside)
       \o PreOrderChildren(content, node, k + 1, inside)

\* the target-kind nodes that reach the minimum size and lie inside no
\* emitted method, constructor or property, in pre-order
ExpectedNodes(content, root) ==
  LET Test(e) == /\ e.node.type \in target_types
                 /\ ~TooSmall(content, e.node)
                 /\ ~e.inside
      all == SelectSeq(PreOrder(content, root, FALSE), Test)
  IN [k \in 1..Len(all) |-> all[k].node]

NoNodeExceedsLimits ==
  \A node \in NodesOf(StructureTree) :
    node.type \in target_types =>
      Len(RenderedText(trial.last.content, node)) <= OversizeFactor * settings.max_chunk_size

\* one namespace that holds one class with two methods
NamespaceClassTwoMethods ==
  Join(<<LnNamespace, LnOpen, LnClass, LnOpen, LnMethodA, LnMethodC, LnOpenIn, LnCloseIn,
         LnClose, LnClose>>)

\* C19: when no node exceeds the size limits, the structural walk emits
\* exactly one chunk for each target-kind node that reaches the minimum size
\* and does not lie inside an emitted method, constructor or property, in
\* depth-first pre-order; a namespace holding one class with two methods
\* yields exactly 4 chunks in the order namespace, class, method, method
C19_OneChunkPerEligibleNode ==
  (StructureCall /\ NoNodeExceedsLimits) =>
    LET expected == ExpectedNodes(trial.last.content, StructureTree)
        chunks == trial.last.chunks
    IN /\ Len(chunks) = Len(expected)
       /\ \A k \in 1..Len(expected) : ChunkOf(chunks[k], trial.last.content, expected[k])
       /\ trial.last.content = NamespaceClassTwoMethods =>
            [k \in 1..Len(chunks) |-> chunks[k].chunk_type]
              = <<"namespace_declaration", "class_declaration",
                  "method_declaration", "method_declaration">>

\* the walk has run on the namespace with one class and two methods, none
\* of them over the limits
C19_Witness ==
  /\ StructureCall
  /\ NoNodeExceedsLimits
  /\ trial.last.content = NamespaceClassTwoMethods
  /\ Len(trial.last.chunks) = 4

\* a call that returns chunks, by either strategy
ChunkingCall == trial.last.op \in {"parse_file", "_parse_csharp", "_simple_chunking"}

\* the chunk covers the 1-based lines start_line..end_line of the file and
\* holds their text
LinesOfFile(c, content) ==
  LET lines == Split(content)
  IN /\ 1 <= c.start_line
     /\ c.start_line <= c.end_line
     /\ c.end_line <= Len(lines)
     /\ c.content = Join(SubSeq(lines, c.start_line, c.end_line))

\* C20: every chunk of either strategy has 1-indexed inclusive lines with
\* 1 <= start_line <= end_line <= the number of lines of the file, and its
\* content is exactly the file's lines start_line..end_line joined by
\* newlines
C20_LineRangeAndContent ==
  ChunkingCall =>
    \A k \in 1..Len(trial.last.chunks) :
      LinesOfFile(trial.last.chunks[k], trial.last.content)

\* parse_file has returned structural chunks, one of which neither begins
\* on the first line nor ends on the last
C20_Witness ==
  /\ trial.last.op = "parse_file"
  /\ \E k \in 1..Len(trial.last.chunks) :
       /\ trial.last.chunks[k].chunk_type = "method_declaration"
       /\ trial.last.chunks[k].start_line > 1
       /\ trial.last.chunks[k].start_line < trial.last.chunks[k].end_line
       /\ trial.last.chunks[k].end_line < Len(Split(trial.last.content))

(***************************************************************************)
(* parse_file and its fallback.                                            *)
(***************************************************************************)
ParseFileCall == trial.last.op = "parse_file"

\* the windowing strategy's chunks for the inputs of the call c
WindowsOf(c) ==
  _simple_chunking(c.content, c.file_path, c.repo_name, c.commit_hash, c.language)

\* the structural walk's chunks for the inputs of the call c
WalkOf(c) ==
  _parse_csharp(tree_sitter_parse(c.content), c.content, c.file_path, c.repo_name,
                c.commit_hash)

\* the language has no structural decomposer, parsing throws, or the walk
\* yields zero chunks
FallsBack(c) ==
  \/ c.language \notin parsers
  \/ c.raises
  \/ WalkOf(c) = << >>

\* C21: parse_file returns exactly the windowing strategy's chunks for the
\* same content whenever the language has no structural decomposer, the
\* structural walk yields zero chunks, or parsing throws; every chunk then
\* carries the fallback chunk-kind; parse_file never returns an empty list
\* for non-empty content
C21_FallbackToWindowing ==
  ParseFileCall =>
    /\ FallsBack(trial.last) =>
         /\ trial.last.chunks = WindowsOf(trial.last)
         /\ \A k \in 1..Len(trial.last.chunks) :
              trial.last.chunks[k].chunk_type = "simple_chunk"
    /\ trial.last.content # << >> => trial.last.chunks # << >>

\* parse_file has fallen back for a C# text whose walk gave no chunk, and
\* has returned windows
C21_Witness ==
  /\ ParseFileCall
  /\ trial.last.language = "csharp"
  /\ ~trial.last.raises
  /\ WalkOf(trial.last) = << >>
  /\ Len(trial.last.chunks) > 1

\* parse_file has been called twice on the same content and path, under
\* two different repository names
TwoRepositories ==
  /\ trial.before.op = "parse_file"
  /\ trial.last.op = "parse_file"
  /\ trial.before.content = trial.last.content
  /\ trial.before.file_path = trial.last.file_path
  /\ trial.before.repo_name # trial.last.repo_name

\* C22: the same file content and path processed under two different
\* repository names gives two chunk lists of equal length whose chunks have
\* pairwise identical content, line ranges and kinds, and pairwise different
\* identifiers
C22_RepositoryNameIndependence ==
  TwoRepositories =>
    LET one == trial.before.chunks
        two == trial.last.chunks
    IN /\ Len(one) = Len(two)
       /\ \A k \in 1..Len(one) :
            /\ one[k].content = two[k].content
            /\ one[k].start_line = two[k].start_line
            /\ one[k].end_line = two[k].end_line
            /\ one[k].chunk_type = two[k].chunk_type
            /\ one[k].id # two[k].id

\* the namespace with one class and two methods has been parsed under two
\* repository names and the same revision, into structural chunks
C22_Witness ==
  /\ TwoRepositories
  /\ trial.last.content = NamespaceClassTwoMethods
  /\ trial.last.commit_hash = trial.before.commit_hash
  /\ Len(trial.last.chunks) = 4
  /\ trial.last.chunks[4].chunk_type = "method_declaration"

(***************************************************************************)
(* The skip path of process_repository.                                    *)
(***************************************************************************)
\* the pass of p has taken the skip path
Skipped(p) == pc[p] = "pass_end" /\ frame[p].skipped

\* the last_commit_hash stored for the repository of the pass of p, as the
\* pass found it
StoredMarker(p) ==
  IF frame[p].repo \in DOMAIN pre[p].states
  THEN pre[p].states[frame[p].repo].last_commit_hash
  ELSE NoCommit

\* C23: process_repository takes the skip path only when the repository's
\* stored last_commit_hash equals the current head revision of the working
\* copy; when the stored marker differs from head, a non-forced pass
\* computes the delta and reconciles
C23_SkipOnlyAtStoredHead ==
  \A p \in Procs :
    Skipped(p) => StoredMarker(p) = Hexsha(WorkingCopyOf(p).head)

(***************************************************************************)
(* Forced passes.                                                          *)
(***************************************************************************)
\* the stored chunks of a repository are those extracted from the
\* admissible files of its revision n, and no others
AgreesWithRevision(name, n) ==
  \A file_path \in Paths :
    IF file_path \in DOMAIN remote[name][n] /\ _should_process_file(ConfigOf(name), file_path)
    THEN FileAgrees(name, file_path, remote[name][n][file_path])
    ELSE ChunksOfFile(collection, name, file_path) = {}

\* a forced pass on a repository that had stored chunks has just returned
\* its statistics
ForcedPassDone(p) ==
  /\ Committed(p)
  /\ frame[p].force
  /\ ChunksOfRepo(pre[p].collection, frame[p].repo) # {}

\* C24: after a successful forced pass on a repository that already has
\* stored chunks, the stored chunks of that repository are exactly those
\* extracted from the admissible files at head: no chunk extracted at an
\* earlier revision survives next to the new ones, and no chunk remains for
\* a path that no longer exists at head
C24_ForcedPassRebuilds ==
  ForcedPassDone(Worker) =>
    AgreesWithRevision(frame[Worker].repo, WorkingCopyOf(Worker).head)

(***************************************************************************)
(* The state write of a pass.                                              *)
(***************************************************************************)
\* p is inside a call of process_repository
InPass(p) ==
  pc[p] \in {"acquire", "advance", "check", "delta", "retire", "build", "commit"}

\* nothing is left to retire or to insert in the pass of p
NothingLeft(p) ==
  /\ frame[p].todo_deleted = {}
  /\ frame[p].todo_added = {}
  /\ frame[p].todo_modified = {}

\* C25: in every pass that is neither skipped nor failed the
\* RepositoryState of the repository is written exactly once, only after
\* every retire and every insert of the pass has finished, and its revision
\* marker is the head revision at which the pass extracted its chunks; a
\* skipped pass and a pass that raises write no state.  Every step of a pass
\* leaves the state map and the state file as they are, but the one step
\* that ends a pass neither skipped nor failed, and that step writes both.
C25_StateWrittenOnceAtTheEnd ==
  [][\A p \in Procs :
       InPass(p) =>
         IF pc'[p] = "pass_end" /\ ret'[p].kind = "stats" /\ ~frame'[p].skipped
         THEN /\ NothingLeft(p)
              /\ frame[p].repo \in DOMAIN states'[p]
              /\ states'[p][frame[p].repo].last_commit_hash = Hexsha(WorkingCopyOf(p).head)
              /\ frame[p].current_commit = Hexsha(WorkingCopyOf(p).head)
              /\ state_file' = _save_states(states'[p])
              /\ collection' = collection
         ELSE /\ states'[p] = states[p]
              /\ state_file' = state_file]_vars

\* a pass that retired and inserted chunks has ended with its state written
C25_Witness ==
  /\ Committed(Worker)
  /\ stats[Worker].chunks_deleted > 0
  /\ stats[Worker].chunks_added > 0
  /\ states[Worker][frame[Worker].repo].last_commit_hash = frame[Worker].current_commit
  /\ states[Worker] # pre[Worker].states
  /\ state_file = _save_states(states[Worker])

(***************************************************************************)
(* The counts of a RepositoryState.                                        *)
(***************************************************************************)
\* the total_chunks stored for the repository of the pass of p when the
\* pass began
TotalChunksBefore(p) ==
  IF frame[p].repo \in DOMAIN pre[p].states
  THEN pre[p].states[frame[p].repo].total_chunks
  ELSE 0

\* C26: RepositoryState.total_chunks is a cumulative chunk count: after
\* every successful pass it equals its value before the pass plus
\* chunks_added minus chunks_deleted
C26_TotalChunksCumulative ==
  Committed(Worker) =>
    states[Worker][frame[Worker].repo].total_chunks
      = TotalChunksBefore(Worker) + ret[Worker].stats.chunks_added
          - ret[Worker].stats.chunks_deleted

(***************************************************************************)
(* Concurrent passes.                                                      *)
(***************************************************************************)
\* C27: at most one pass (Acquire through Commit) per repository name is in
\* progress at any time: the Acquire-to-Commit sequences of two concurrent
\* ingestions of the same repository never overlap
C27_OnePassPerRepository ==
  \A p, q \in Procs :
    (p # q /\ InPass(p) /\ InPass(q)) => frame[p].repo # frame[q].repo

\* the map a process reads back from the state file
Persisted == _load_states(state_file)

\* the passes of p and q, on two different repositories, have both ended
\* with their state written, and each began before the other had written
BothCommitted(p, q) ==
  /\ p # q
  /\ Committed(p) /\ Committed(q)
  /\ frame[p].repo # frame[q].repo
  /\ frame[q].repo \notin DOMAIN _load_states(pre[p].state_file)
  /\ frame[p].repo \notin DOMAIN _load_states(pre[q].state_file)

\* C29: passes on two different repositories that run concurrently in
\* parallel workers, each holding the state map it loaded at its start, do
\* not interfere through the State Store: after both have committed, the
\* persisted map holds the new revision marker of both repositories
C29_ConcurrentCommitsKeepBothEntries ==
  \A p, q \in Procs :
    BothCommitted(p, q) =>
      /\ frame[p].repo \in DOMAIN Persisted
      /\ Persisted[frame[p].repo].last_commit_hash = frame[p].current_commit

(***************************************************************************)
(* The save of the state store.                                            *)
(***************************************************************************)
\* C28: the state store's save is atomic with respect to crashes: a crash
\* at any point during a save leaves a persisted map that load() reads back
\* as either the complete map from before the save or the complete map
\* after it, never an empty, truncated or partial map
C28_SaveIsAtomic ==
  [][\A p \in Procs :
       (pc[p] = "commit" /\ pc'[p] = "idle") =>
         _load_states(state_file')
           \in {_load_states(state_file), Put(states[p], frame[p].repo, NewState(p))}]_vars

(***************************************************************************)
(* The identifiers of the windows of one file.                             *)
(***************************************************************************)
\* C30: within one windowing extraction of a file, successive chunks start
\* at strictly increasing lines, so all chunk identifiers produced for the
\* file are pairwise distinct, for any line lengths and any configured
\* max-size and overlap
C30_WindowStartsIncrease ==
  WindowCall =>
    LET chunks == trial.last.chunks
    IN /\ \A k \in 1..(Len(chunks) - 1) : chunks[k].start_line < chunks[k + 1].start_line
       /\ \A j, k \in 1..Len(chunks) : j # k => chunks[j].id # chunks[k].id

(***************************************************************************)
(* The identifiers of the chunks of one structural extraction.             *)
(***************************************************************************)
\* C31: within one structural extraction of a file, all emitted chunks have
\* pairwise distinct identifiers, for any syntax tree (a nested declaration
\* may start on the same line as the declaration that encloses it)
C31_StructuralIdsDistinct ==
  StructureCall =>
    \A j, k \in 1..Len(trial.last.chunks) :
      j # k => trial.last.chunks[j].id # trial.last.chunks[k].id

(***************************************************************************)
(* The qualified name of a structural chunk.                               *)
(***************************************************************************)
\* the emitted nodes of the tree of the call
EmittedNodes ==
  {n \in NodesOf(StructureTree) :
     n.type \in target_types /\ Emitted(trial.last.chunks, trial.last.content, n)}

\* n is the emitted node that encloses d most closely
EnclosingEmitted(n, d) ==
  /\ n \in EmittedNodes
  /\ d \in DescendantsOf(n)
  /\ \A m \in EmittedNodes : ~(m \in DescendantsOf(n) /\ d \in DescendantsOf(m))

\* C32: the qualified-name metadata of every structural chunk is its own
\* declared identifier prefixed, dot-joined, by the identifier of the
\* enclosing emitted node; a chunk with no enclosing emitted node has just
\* its own identifier
C32_QualifiedName ==
  StructureCall =>
    \A d \in EmittedNodes :
      \A k \in 1..Len(trial.last.chunks) :
        ChunkOf(trial.last.chunks[k], trial.last.content, d) =>
          LET own == _extract_name(d, trial.last.content)
              context == trial.last.chunks[k].metadata.context
          IN /\ (\A n \in EmittedNodes : d \notin DescendantsOf(n)) => context = own
             /\ \A n \in EmittedNodes :
                  EnclosingEmitted(n, d) =>
                    EndsWith(context,
                             _extract_name(n, trial.last.content) \o <<".">> \o own)

\* the chunks of the collection built from a file at the revision of the pass
BuiltInPass(p, file_path) ==
  {c \in ChunksOfFile(collection, frame[p].repo, file_path) :
     c.commit_hash = frame[p].current_commit}

\* a pass has ended in which some file failed
PassWithFailedFile(p) == pc[p] = "pass_end" /\ frame[p].failed_files # {}

\* C33: a pass in which a file of added or modified could not be read, or
\* raised while it was processed, still returns statistics after setting the
\* state of the repository; nothing built from the failing file is stored,
\* and every other file of the delta with a language and a content has the
\* chunks of parse_file in the collection.
C33_PerFileFailuresNonFatal ==
  \A p \in Procs :
    PassWithFailedFile(p) =>
      LET name == frame[p].repo
          others == (frame[p].added_files \cup frame[p].modified_files) \ frame[p].failed_files
      IN /\ ret[p].kind = "stats"
         /\ frame[p].todo_added \cup frame[p].todo_modified = {}
         /\ name \in DOMAIN states[p]
         /\ states[p][name].last_commit_hash = frame[p].current_commit
         /\ \A file_path \in frame[p].failed_files : BuiltInPass(p, file_path) = {}
         /\ \A file_path \in others :
              LET content == get_file_content(name, file_path)
                  language == _detect_language(file_path)
                  chunks == parse_file(content, file_path, name, frame[p].current_commit, language)
              IN (language # NoLanguage /\ content # EmptyText) =>
                   {c.id : c \in BuiltInPass(p, file_path)} = {chunks[k].id : k \in 1..Len(chunks)}

\* a pass ended in which one file failed and another one was built
C33_Witness ==
  \E p \in Procs :
    /\ PassWithFailedFile(p)
    /\ ret[p].kind = "stats"
    /\ \E file_path \in (frame[p].added_files \cup frame[p].modified_files) \ frame[p].failed_files :
         BuiltInPass(p, file_path) # {}

\* the last add_chunks call of the pass of p in which a chunk failed
StoreFailure(p) == frame[p].store_failure

\* the chunks of that call other than the one that failed
OtherChunks(p) ==
  {k \in 1..Len(StoreFailure(p).chunks) :
     /\ k \notin StoreFailure(p).failed
     /\ \A j \in StoreFailure(p).failed :
          StoreFailure(p).chunks[j].id # StoreFailure(p).chunks[k].id}

\* C34: when one chunk of a file fails to be stored, every other chunk of
\* the file is in the collection, add_chunks has returned the number of
\* chunks it stored, and the pass goes on to its end and returns statistics.
C34_OnlyTheFailingChunkIsSkipped ==
  \A p \in Procs :
    StoreFailure(p) # NoStoreFailure =>
      /\ \A k \in OtherChunks(p) :
           \E c \in collection : c.id = StoreFailure(p).chunks[k].id
      /\ StoreFailure(p).count =
           Cardinality({StoreFailure(p).chunks[k].id : k \in OtherChunks(p)})
      /\ pc[p] \in {"build", "commit", "pass_end"}
      /\ pc[p] = "pass_end" => ret[p].kind = "stats"

\* the kinds that are complete units
UnitTypes == {"method_declaration", "constructor_declaration", "property_declaration"}

\* the node lies inside a unit that reaches the minimum size
InsideUnit(content, d) ==
  \E m \in NodesOf(StructureTree) :
    m.type \in UnitTypes /\ ~TooSmall(content, m) /\ d \in DescendantsOf(m)

\* C35: no descendant of an emitted method, constructor or property is
\* emitted, while under an emitted node of any other kind every eligible
\* descendant that lies inside no such unit is emitted.
C35_NoDescentIntoUnits ==
  StructureCall =>
    \A n \in NodesOf(StructureTree) :
      (n.type \in target_types /\ Emitted(trial.last.chunks, trial.last.content, n)) =>
        IF n.type \in UnitTypes
        THEN \A d \in DescendantsOf(n) :
               d.type \in target_types =>
                 ~Emitted(trial.last.chunks, trial.last.content, d)
        ELSE \A d \in DescendantsOf(n) :
               (Eligible(trial.last.content, d) /\ ~InsideUnit(trial.last.content, d)) =>
                 Emitted(trial.last.chunks, trial.last.content, d)

\* an emitted class holds an emitted method, and the method holds a class
\* that is eligible
C35_Witness ==
  /\ StructureCall
  /\ \E c \in NodesOf(StructureTree), m \in NodesOf(StructureTree), d \in NodesOf(StructureTree) :
       /\ c.type = "class_declaration" /\ m.type = "method_declaration"
       /\ d.type = "class_declaration"
       /\ m \in DescendantsOf(c) /\ d \in DescendantsOf(m)
       /\ Emitted(trial.last.chunks, trial.last.content, c)
       /\ Emitted(trial.last.chunks, trial.last.content, m)
       /\ Eligible(trial.last.content, d)

\* the accumulated length of the last n lines, each with its newline
RECURSIVE TailLength(_, _)
TailLength(lines, n) ==
  IF n = 0 THEN 0 ELSE Len(lines[Len(lines) - n + 1]) + 1 + TailLength(lines, n - 1)

\* the length of the longest run of trailing lines within the overlap
LongestTail(lines, overlap) ==
  CHOOSE n \in 0..Len(lines) :
    /\ TailLength(lines, n) <= overlap
    /\ \A m \in (n + 1)..Len(lines) : TailLength(lines, m) > overlap

\* C36: each windowing chunk after the first begins with the longest run of
\* trailing lines of the chunk closed before it whose accumulated length
\* (each line plus its newline) is within the configured overlap, and its
\* start line is the line number of the first of those lines (the line after
\* the closed chunk when the run is empty).
C36_OverlapIsLongestTail ==
  WindowCall =>
    LET chunks == trial.last.chunks
    IN \A k \in 1..(Len(chunks) - 1) :
         LET closed == SubSeq(WindowLines, chunks[k].start_line, chunks[k].end_line)
             n == LongestTail(closed, settings.chunk_overlap)
             next == Split(chunks[k + 1].content)
         IN /\ chunks[k + 1].start_line = chunks[k].end_line - n + 1
            /\ n <= Len(next)
            /\ SubSeq(next, 1, n) = SubSeq(closed, Len(closed) - n + 1, Len(closed))

\* a chunk was closed whose last two lines fit the overlap and whose last
\* three do not, and another whose last line does not fit
C36_Witness ==
  /\ WindowCall
  /\ \E k \in 1..(Len(trial.last.chunks) - 1) :
       /\ trial.last.chunks[k].end_line - trial.last.chunks[k].start_line >= 2
       /\ trial.last.chunks[k + 1].start_line = trial.last.chunks[k].end_line - 1
  /\ \E k \in 1..(Len(trial.last.chunks) - 1) :
       trial.last.chunks[k + 1].start_line = trial.last.chunks[k].end_line + 1

\* C37: after any sequence of passes that meet no failure, total_chunks of
\* every RepositoryState, in memory and in the state file, is at least 0,
\* also after a pass whose delta holds only deleted files.
C37_TotalChunksNotNegative ==
  /\ \A p \in Procs : \A name \in DOMAIN states[p] : states[p][name].total_chunks >= 0
  /\ \A name \in DOMAIN _load_states(state_file) :
       _load_states(state_file)[name].total_chunks >= 0

\* get_changed_files has returned to the pass of p
DeltaKnown(p) == pc[p] \in {"retire", "build", "commit"}

\* C38: the added, modified and deleted sets that get_changed_files returns
\* are pairwise disjoint, on the first run, after a diff and after a diff
\* that failed.
C38_DeltaSetsDisjoint ==
  \A p \in Procs :
    DeltaKnown(p) =>
      /\ frame[p].added_files \cap frame[p].modified_files = {}
      /\ frame[p].added_files \cap frame[p].deleted_files = {}
      /\ frame[p].modified_files \cap frame[p].deleted_files = {}

\* a diff has returned files of all three kinds
C38_Witness ==
  \E p \in Procs :
    /\ DeltaKnown(p)
    /\ frame[p].old_commit # NoCommit
    /\ frame[p].added_files # {}
    /\ frame[p].modified_files # {}
    /\ frame[p].deleted_files # {}

AdmissionCall == trial.last.op = "_should_process_file"

\* a pattern with its wildcards stripped: no "*/", no "/*" and no "*" is left
Stripped(pattern) == RemoveAll(pattern_clean(pattern), <<"*">>)

\* C39: a path with a tracked extension is excluded exactly when some
\* exclusion pattern with its wildcards stripped is a substring of the path,
\* so that no literal wildcard character of a pattern decides the outcome.
C39_ExclusionBySubstring ==
  AdmissionCall =>
    LET file_path == trial.last.file_path
        patterns == ConfigOf(R1).exclude_patterns
    IN Lower(PathSuffix(file_path)) \in language_extensions("python") =>
         (~trial.last.result
            <=> \E k \in 1..Len(patterns) : Contains(file_path, Stripped(patterns[k])))

=============================================================================
